---- MODULE Spec2Model ----
(***************************************************************************)
(* Verification model of the incremental CBOR decoder: the byte-driven    *)
(* scanner (src/src/scanner.rs), the LL parser (src/src/parser/ll.rs)     *)
(* and the LR parser (src/src/parser/lr.rs).                               *)
(*                                                                         *)
(* Numbers: a u64 is the tuple of its 8 bytes, most significant first, so *)
(* that shifts lose exactly the bits a 64-bit register loses.  A usize is *)
(* 32 or 64 bits wide depending on the build target (usize_bits).         *)
(* A panic (assert!, unwrap, todo!, capacity overflow) ends the object    *)
(* that raised it: its last result is Panic and it takes no more calls.   *)
(***************************************************************************)
EXTENDS Integers, Sequences, FiniteSets, TLC

VARIABLES
    usize_bits,      \* width of usize on the build target: 32 or 64
    overflow_checks, \* TRUE when the build panics on integer overflow
    state,       \* Scanner.state : ScanState
    ret,         \* result of the last Scanner call
    op,          \* last Scanner operation: "new", "consume", "iter", "reset"
    byte,        \* argument of the last Scanner::consume
    pre_tag,     \* tag of Scanner.state when the last operation began
    item,        \* bytes consumed since the last token, error or reset
    fresh,       \* TRUE when the next byte consumed begins a new item
    given,       \* the iterator handed to the last consume_until_complete
    rest,        \* what that call left in the iterator
    ll_inner,    \* ll::Parser.inner : its context stack and value stack
    ll_ret,      \* result of the last ll::Parser::consume
    ll_inited,   \* TRUE once ll::Parser::init has been called
    lr_parser,   \* lr::Parser : its state stack and value stack
    lr_ret,      \* result of the last lr::Parser::consume
    toks,        \* the tokens handed to the parsers so far
    token_in,    \* the token handed to Value::try_from
    converted,   \* what Value::try_from made of it
    int_in,      \* the i64 handed to Token::from, as its 8 bytes
    token_out    \* what Token::from made of it

build_vars == <<usize_bits, overflow_checks>>

scan_vars == <<state, ret, op, byte, pre_tag, item, fresh, given, rest>>

parse_vars == <<ll_inner, ll_ret, ll_inited, lr_parser, lr_ret, toks>>

conv_vars == <<token_in, converted, int_in, token_out>>

vars == <<build_vars, scan_vars, parse_vars, conv_vars>>

(***************************************************************************)
(* Bounds of the model                                                     *)
(***************************************************************************)
\* longest payload buffer the environment fills before it stops feeding
MaxPay == 3
\* longest iterator handed to consume_until_complete
MaxIter == 3
\* most tokens handed to the parsers
MaxTokens == 4

\* bytes fed as payload and as the more significant argument bytes
PayBytes == {65, 255}
HighArgBytes == {0, 255}
\* bytes fed as the least significant argument byte
LowArgBytes == {0, 2, 255}
\* bytes the iterators of consume_until_complete are made of:
\* 0x00 uint, 0x18 uint with a 1-byte argument, 0x42 bstr of 2, 0x1c no head
IterBytes == {0, 24, 66, 28}

(***************************************************************************)
(* u64 and u8 arithmetic                                                   *)
(***************************************************************************)
Bytes == 0..255

U64Zero == <<0, 0, 0, 0, 0, 0, 0, 0>>

\* u64::from(b) for a byte b
U64FromByte(b) == <<0, 0, 0, 0, 0, 0, 0, b>>

\* x | y on bytes
RECURSIVE BitOr(_, _)
BitOr(x, y) ==
    IF x = 0 THEN y
    ELSE IF y = 0 THEN x
    ELSE (IF x % 2 = 1 \/ y % 2 = 1 THEN 1 ELSE 0) + 2 * BitOr(x \div 2, y \div 2)

\* U64Shl8 as it would be with a 32-bit accumulator.
U64Shl8Narrow(a) == <<0, 0, 0, 0, a[6], a[7], a[8], 0>>

\* arg <<= 8 on a u64: the top byte is shifted out
U64Shl8(a) == <<a[2], a[3], a[4], a[5], a[6], a[7], a[8], 0>>

\* arg |= u64::from(b)
U64OrByte(a, b) == [a EXCEPT ![8] = BitOr(a[8], b)]

\* pending -= 1 on a non-zero usize held as 8 bytes
RECURSIVE U64DecAt(_, _)
U64DecAt(a, i) ==
    IF a[i] > 0 THEN [a EXCEPT ![i] = a[i] - 1]
    ELSE U64DecAt([a EXCEPT ![i] = 255], i - 1)

U64Dec(a) == U64DecAt(a, 8)

\* usize::try_from(count) succeeds
FitsUsize(count) ==
    usize_bits = 64 \/ \A i \in 1..4 : count[i] = 0

\* count > isize::MAX, for a count that fits usize
ExceedsIsizeMax(count) ==
    IF usize_bits = 64 THEN count[1] >= 128 ELSE count[5] >= 128

(***************************************************************************)
(* Scanner: states, results, tokens                                        *)
(***************************************************************************)
ScanStateHead == [tag |-> "Head"]

\* ScanState::default()
ScanStateDefault == ScanStateHead

Incomplete(scan_state) == [r |-> "Incomplete", state |-> scan_state]
Complete(scan_state, tok) == [r |-> "Complete", state |-> scan_state, token |-> tok]
ScanError(e) == [r |-> "Error", err |-> e]
ScanPanic(why) == [r |-> "Panic", why |-> why]

TokUint(n) == [kind |-> "Uint", n |-> n]
TokNint(n) == [kind |-> "Nint", n |-> n]
TokBstrX == [kind |-> "BstrX"]
TokBstr(bs) == [kind |-> "Bstr", bytes |-> bs]
TokTstrX == [kind |-> "TstrX"]
TokTstr(bs) == [kind |-> "Tstr", bytes |-> bs]
TokArrayX == [kind |-> "ArrayX"]
TokArray(n) == [kind |-> "Array", n |-> n]
TokMapX == [kind |-> "MapX"]
TokMap(n) == [kind |-> "Map", n |-> n]
TokTag(n) == [kind |-> "Tag", n |-> n]
TokSimple(s) == [kind |-> "Simple", s |-> s]
TokFloat(n) == [kind |-> "Float", n |-> n]
TokBreak == [kind |-> "Break"]

\* u8::try_from(argument) succeeds
FitsU8(argument) == \A i \in 1..7 : argument[i] = 0

\* the match of kind in token()
TokenOf(kind, argument, payload) ==
    CASE kind = "Uint" -> TokUint(argument)
      [] kind = "Nint" -> TokNint(argument)
      [] kind = "BstrX" -> TokBstrX
      [] kind = "Bstr" -> TokBstr(payload)
      [] kind = "TstrX" -> TokTstrX
      [] kind = "Tstr" -> TokTstr(payload)
      [] kind = "ArrayX" -> TokArrayX
      [] kind = "Array" -> TokArray(argument)
      [] kind = "MapX" -> TokMapX
      [] kind = "Map" -> TokMap(argument)
      [] kind = "Tag" -> TokTag(argument)
      [] kind = "Simple" -> TokSimple(argument[8])
      [] kind = "Float" -> TokFloat(argument)
      [] kind = "Break" -> TokBreak

\* token as it would be if the completed token left the scanner waiting for
\* one more argument byte instead of a head.
tokenKeepsState(kind, argument, payload) ==
    Complete([tag |-> "Arg", kind |-> kind, arg |-> argument, pending |-> 1],
             TokenOf(kind, argument, payload))

token(kind, argument, payload) ==
    IF kind = "Simple" /\ ~FitsU8(argument)
    THEN ScanPanic("unwrap")
    ELSE Complete(ScanStateHead, TokenOf(kind, argument, payload))

token_uint(arg) == token("Uint", arg, <<>>)
token_nint(arg) == token("Nint", arg, <<>>)
token_bstr_empty == token("Bstr", U64Zero, <<>>)
token_bstr_indef == token("BstrX", U64FromByte(255), <<>>)
token_tstr_empty == token("Tstr", U64Zero, <<>>)
token_tstr_indef == token("TstrX", U64FromByte(255), <<>>)
token_array_empty == token("Array", U64Zero, <<>>)
token_array(arg) == token("Array", arg, <<>>)
token_array_indef == token("ArrayX", U64FromByte(255), <<>>)
token_map_empty == token("Map", U64Zero, <<>>)
token_map(arg) == token("Map", arg, <<>>)
token_map_indef == token("MapX", U64FromByte(255), <<>>)
token_tag(arg) == token("Tag", arg, <<>>)
token_simple(arg) == token("Simple", arg, <<>>)
token_break == token("Break", U64FromByte(255), <<>>)

\* gather_argument as it would be if it awaited one argument byte too many.
gather_argument_off_by_one(kind, count) ==
    Incomplete([tag |-> "Arg", kind |-> kind, arg |-> U64Zero,
                pending |-> count + 1])

gather_argument(kind, count) ==
    Incomplete([tag |-> "Arg", kind |-> kind, arg |-> U64Zero, pending |-> count])

\* gather_bytes as it would be if the count were cast to usize unchecked
gather_bytes_unchecked(kind, count) ==
    IF ExceedsIsizeMax(count)
    THEN ScanPanic("capacity overflow")
    ELSE Incomplete([tag |-> "Pay", kind |-> kind, bytes |-> <<>>,
                     pending |-> count])

\* Vec::with_capacity(sz) panics with "capacity overflow" above isize::MAX
gather_bytes(kind, count) ==
    IF FitsUsize(count)
    THEN IF ExceedsIsizeMax(count)
         THEN ScanPanic("capacity overflow")
         ELSE Incomplete([tag |-> "Pay", kind |-> kind, bytes |-> <<>>,
                          pending |-> count])
    ELSE ScanError([e |-> "Excessive", count |-> count])

(***************************************************************************)
(* Scanner: consume(state, byte)                                           *)
(***************************************************************************)
consumeHead(b) ==
    CASE b \in 0..23 -> token_uint(U64FromByte(b))
      [] b = 24 -> gather_argument("Uint", 1)
      [] b = 25 -> gather_argument("Uint", 2)
      [] b = 26 -> gather_argument("Uint", 4)
      [] b = 27 -> gather_argument("Uint", 8)
      [] b \in 32..55 -> token_nint(U64FromByte(b - 32))
      [] b = 56 -> gather_argument("Nint", 1)
      [] b = 57 -> gather_argument("Nint", 2)
      [] b = 58 -> gather_argument("Nint", 4)
      [] b = 59 -> gather_argument("Nint", 8)
      [] b = 64 -> token_bstr_empty
      [] b \in 65..87 -> gather_bytes("Bstr", U64FromByte(b - 64))
      [] b = 88 -> gather_argument("Bstr", 1)
      [] b = 89 -> gather_argument("Bstr", 2)
      [] b = 90 -> gather_argument("Bstr", 4)
      [] b = 91 -> gather_argument("Bstr", 8)
      [] b = 95 -> token_bstr_indef
      [] b = 96 -> token_tstr_empty
      [] b \in 97..119 -> gather_bytes("Tstr", U64FromByte(b - 96))
      [] b = 120 -> gather_argument("Tstr", 1)
      [] b = 121 -> gather_argument("Tstr", 2)
      [] b = 122 -> gather_argument("Tstr", 4)
      [] b = 123 -> gather_argument("Tstr", 8)
      [] b = 127 -> token_tstr_indef
      [] b = 128 -> token_array_empty
      [] b \in 129..151 -> token_array(U64FromByte(b - 128))
      [] b = 152 -> gather_argument("Array", 1)
      [] b = 153 -> gather_argument("Array", 2)
      [] b = 154 -> gather_argument("Array", 4)
      [] b = 155 -> gather_argument("Array", 8)
      [] b = 159 -> token_array_indef
      [] b = 160 -> token_map_empty
      [] b \in 161..183 -> token_map(U64FromByte(b - 160))
      [] b = 184 -> gather_argument("Map", 1)
      [] b = 185 -> gather_argument("Map", 2)
      [] b = 186 -> gather_argument("Map", 4)
      [] b = 187 -> gather_argument("Map", 8)
      [] b = 191 -> token_map_indef
      [] b \in 192..215 -> token_tag(U64FromByte(b - 192))
      [] b = 216 -> gather_argument("Tag", 1)
      [] b = 217 -> gather_argument("Tag", 2)
      [] b = 218 -> gather_argument("Tag", 4)
      [] b = 219 -> gather_argument("Tag", 8)
      [] b \in 224..247 -> token_simple(U64FromByte(b - 224))
      [] b = 248 -> gather_argument("Simple", 1)
      [] b = 249 -> gather_argument("Float", 2)
      [] b = 250 -> gather_argument("Float", 4)
      [] b = 251 -> gather_argument("Float", 8)
      [] b = 255 -> token_break
      [] OTHER -> ScanError([e |-> "UnexpectedHead", head |-> b])

\* consumeArg as it would be if every kind with a non-zero argument went on
\* to gather a payload.
consumeArgGathersAll(st, b) ==
    IF ~(st.pending > 0) THEN ScanPanic("assert")
    ELSE LET arg == U64OrByte(U64Shl8(st.arg), b)
             pending == st.pending - 1
             kind == st.kind
         IN  IF pending > 0
             THEN Incomplete([tag |-> "Arg", kind |-> kind, arg |-> arg,
                              pending |-> pending])
             ELSE IF arg = U64Zero
             THEN CASE kind = "Bstr" -> token_bstr_empty
                    [] kind = "Tstr" -> token_tstr_empty
                    [] kind = "Array" -> token_array_empty
                    [] kind = "Map" -> token_map_empty
                    [] OTHER -> token(kind, arg, <<>>)
             ELSE gather_bytes(kind, arg)

consumeArg(st, b) ==
    IF ~(st.pending > 0) THEN ScanPanic("assert")
    ELSE LET arg == U64OrByte(U64Shl8(st.arg), b)
             pending == st.pending - 1
             kind == st.kind
         IN  IF pending > 0
             THEN Incomplete([tag |-> "Arg", kind |-> kind, arg |-> arg,
                              pending |-> pending])
             ELSE IF arg = U64Zero
             THEN CASE kind = "Bstr" -> token_bstr_empty
                    [] kind = "Tstr" -> token_tstr_empty
                    [] kind = "Array" -> token_array_empty
                    [] kind = "Map" -> token_map_empty
                    [] OTHER -> token(kind, arg, <<>>)
             ELSE IF kind \in {"Bstr", "Tstr"}
                  THEN gather_bytes(kind, arg)
                  ELSE token(kind, arg, <<>>)

\* consumePay as it would be if the byte were put in front of the buffer.
consumePayPrepend(st, b) ==
    IF st.pending = U64Zero THEN ScanPanic("assert")
    ELSE LET bytes == <<b>> \o st.bytes
             pending == U64Dec(st.pending)
             kind == st.kind
         IN  IF pending # U64Zero
             THEN Incomplete([tag |-> "Pay", kind |-> kind, bytes |-> bytes,
                              pending |-> pending])
             ELSE token(kind, U64Zero, bytes)

consumePay(st, b) ==
    IF st.pending = U64Zero THEN ScanPanic("assert")
    ELSE LET bytes == Append(st.bytes, b)
             pending == U64Dec(st.pending)
             kind == st.kind
         IN  IF pending # U64Zero
             THEN Incomplete([tag |-> "Pay", kind |-> kind, bytes |-> bytes,
                              pending |-> pending])
             ELSE IF kind \in {"Bstr", "Tstr"}
                  THEN token(kind, U64Zero, bytes)
                  ELSE ScanPanic("Gathering bytes")

consume(st, b) ==
    CASE st.tag = "Head" -> consumeHead(b)
      [] st.tag = "Arg" -> consumeArg(st, b)
      [] st.tag = "Pay" -> consumePay(st, b)

(***************************************************************************)
(* Scanner: the public methods                                             *)
(***************************************************************************)
NoCall == [r |-> "Init"]
Unit == [r |-> "Unit"]
OkNone == [r |-> "None"]
OkSome(x) == [r |-> "Some", token |-> x]
Err(e) == [r |-> "Err", err |-> e]
Panicked == [r |-> "Panic"]

\* Scanner::consume: mem::take leaves ScanState::default() in self.state,
\* and only the Incomplete and Complete arms store a state back.
Scanner_consume(st, b) ==
    LET res == consume(st, b)
    IN  CASE res.r = "Incomplete" -> [state |-> res.state, ret |-> OkNone]
          [] res.r = "Complete" -> [state |-> res.state, ret |-> OkSome(res.token)]
          [] res.r = "Error" -> [state |-> ScanStateDefault, ret |-> Err(res.err)]
          [] res.r = "Panic" -> [state |-> ScanStateDefault, ret |-> Panicked]

\* the bytes of the item under way, after b was consumed
ItemNext(it, fr, b) == IF fr THEN <<b>> ELSE Append(it, b)

\* Scanner_consume_until_complete as it would be if an exhausted iterator
\* reset the scanner.
RECURSIVE Scanner_consume_until_complete_forgets(_, _)
Scanner_consume_until_complete_forgets(st, iter) ==
    IF iter = <<>>
    THEN [state |-> ScanStateDefault, ret |-> OkNone, rest |-> <<>>]
    ELSE LET c == Scanner_consume(st, Head(iter))
         IN  IF c.ret.r = "None"
             THEN Scanner_consume_until_complete_forgets(c.state, Tail(iter))
             ELSE [state |-> c.state, ret |-> c.ret, rest |-> Tail(iter)]

\* Scanner::consume_until_complete(iter)
RECURSIVE Scanner_consume_until_complete(_, _)
Scanner_consume_until_complete(st, iter) ==
    IF iter = <<>>
    THEN [state |-> st, ret |-> OkNone, rest |-> <<>>]
    ELSE LET c == Scanner_consume(st, Head(iter))
         IN  IF c.ret.r = "None"
             THEN Scanner_consume_until_complete(c.state, Tail(iter))
             ELSE [state |-> c.state, ret |-> c.ret, rest |-> Tail(iter)]

\* Scanner_reset as it would be if it left the state alone.
Scanner_reset_noop(st) == st

\* Scanner::reset
Scanner_reset(st) == ScanStateDefault

(***************************************************************************)
(* Parsers: numbers, values, errors                                        *)
(***************************************************************************)
\* a u64 below 2^24: every count that can be met within the stack bounds
U64Small(a) == \A i \in 1..5 : a[i] = 0

\* the number a small u64 stands for
U64Nat(a) == a[6] * 65536 + a[7] * 256 + a[8]

\* the u64 of a number below 2^24
U64OfNat(k) == <<0, 0, 0, 0, 0, (k \div 65536) % 256, (k \div 256) % 256, k % 256>>

\* a < b on u64
RECURSIVE U64LtFrom(_, _, _)
U64LtFrom(a, b, i) ==
    IF i > 8 THEN FALSE
    ELSE IF a[i] # b[i] THEN a[i] < b[i]
    ELSE U64LtFrom(a, b, i + 1)

U64Lt(a, b) == U64LtFrom(a, b, 1)

\* a + 1 on u64 (callers keep a below u64::MAX)
RECURSIVE U64IncAt(_, _)
U64IncAt(a, i) ==
    IF i = 0 THEN a
    ELSE IF a[i] < 255 THEN [a EXCEPT ![i] = a[i] + 1]
    ELSE U64IncAt([a EXCEPT ![i] = 0], i - 1)

U64Inc(a) == U64IncAt(a, 8)

\* 2 * n in 64 bits, the bit shifted out being lost
U64Mul2Wrapping(n) ==
    [i \in 1..8 |-> ((2 * n[i]) % 256) + (IF i < 8 /\ n[i + 1] >= 128 THEN 1 ELSE 0)]

\* 2 * n as the build computes it: with overflow checks (debug builds) an
\* overflowing product panics, without them it wraps
U64Mul2(n) ==
    IF overflow_checks /\ n[1] >= 128 THEN [ok |-> FALSE, n |-> U64Zero]
    ELSE [ok |-> TRUE, n |-> U64Mul2Wrapping(n)]

Reverse(s) == [i \in 1..Len(s) |-> s[Len(s) + 1 - i]]

Value_Uint(n) == [v |-> "Uint", n |-> n]
Value_Nint(n) == [v |-> "Nint", n |-> n]
Value_Float(n) == [v |-> "Float", n |-> n]
Value_Bstr(bs) == [v |-> "Bstr", bytes |-> bs]
Value_Tstr(bs) == [v |-> "Tstr", bytes |-> bs]
Value_Simple(s) == [v |-> "Simple", s |-> s]
Value_Tag(t, x) == [v |-> "Tag", tag |-> t, value |-> x]
Value_Array(xs) == [v |-> "Array", elements |-> xs]
Value_Map(es) == [v |-> "Map", entries |-> es]

\* String::from_utf8 succeeds on bs
\* byte i of bs is a continuation byte
Utf8Cont(bs, i) == i <= Len(bs) /\ bs[i] \in 128..191

\* bs without its first k bytes
Utf8Drop(bs, k) == SubSeq(bs, k + 1, Len(bs))

RECURSIVE Utf8Valid(_)
Utf8Valid(bs) ==
    IF Len(bs) = 0 THEN TRUE
    ELSE IF bs[1] < 128 THEN Utf8Valid(Utf8Drop(bs, 1))
    ELSE IF bs[1] \in 194..223
         THEN Utf8Cont(bs, 2) /\ Utf8Valid(Utf8Drop(bs, 2))
    ELSE IF bs[1] = 224
         THEN Len(bs) >= 2 /\ bs[2] \in 160..191 /\ Utf8Cont(bs, 3)
              /\ Utf8Valid(Utf8Drop(bs, 3))
    ELSE IF bs[1] = 237
         THEN Len(bs) >= 2 /\ bs[2] \in 128..159 /\ Utf8Cont(bs, 3)
              /\ Utf8Valid(Utf8Drop(bs, 3))
    ELSE IF bs[1] \in 225..239
         THEN Utf8Cont(bs, 2) /\ Utf8Cont(bs, 3) /\ Utf8Valid(Utf8Drop(bs, 3))
    ELSE IF bs[1] = 240
         THEN Len(bs) >= 2 /\ bs[2] \in 144..191 /\ Utf8Cont(bs, 3)
              /\ Utf8Cont(bs, 4) /\ Utf8Valid(Utf8Drop(bs, 4))
    ELSE IF bs[1] \in 241..243
         THEN Utf8Cont(bs, 2) /\ Utf8Cont(bs, 3) /\ Utf8Cont(bs, 4)
              /\ Utf8Valid(Utf8Drop(bs, 4))
    ELSE IF bs[1] = 244
         THEN Len(bs) >= 2 /\ bs[2] \in 128..143 /\ Utf8Cont(bs, 3)
              /\ Utf8Cont(bs, 4) /\ Utf8Valid(Utf8Drop(bs, 4))
    ELSE FALSE

\* Option results of the accessors; as_tstr unwraps the UTF-8 conversion
None == [o |-> "None"]
Some(x) == [o |-> "Some", x |-> x]
OptPanic == [o |-> "Panic"]

as_array(x) == IF x.v = "Array" THEN Some(x.elements) ELSE None
as_bstr(x) == IF x.v = "Bstr" THEN Some(x.bytes) ELSE None
as_map(x) == IF x.v = "Map" THEN Some(x.entries) ELSE None
as_tstr(x) ==
    IF x.v = "Tstr"
    THEN IF Utf8Valid(x.bytes) THEN Some(x.bytes) ELSE OptPanic
    ELSE None

\* Value_try_from as it would be if the opener of an indefinite array
\* carried no value of its own
Value_try_from_bare_arrayx(tok) ==
    CASE tok.kind \in {"Array", "Map", "Tag", "Break", "ArrayX"} -> [t |-> "Err"]
      [] tok.kind = "Uint" -> [t |-> "Ok", value |-> Value_Uint(tok.n)]
      [] tok.kind = "Nint" -> [t |-> "Ok", value |-> Value_Nint(tok.n)]
      [] tok.kind = "BstrX" -> [t |-> "Ok", value |-> Value_Bstr(<<>>)]
      [] tok.kind = "Bstr" -> [t |-> "Ok", value |-> Value_Bstr(tok.bytes)]
      [] tok.kind = "TstrX" -> [t |-> "Ok", value |-> Value_Tstr(<<>>)]
      [] tok.kind = "Tstr" -> [t |-> "Ok", value |-> Value_Tstr(tok.bytes)]
      [] tok.kind = "MapX" -> [t |-> "Ok", value |-> Value_Map(<<>>)]
      [] tok.kind = "Simple" -> [t |-> "Ok", value |-> Value_Simple(tok.s)]
      [] tok.kind = "Float" -> [t |-> "Panic"]

\* Value::try_from(token): Ok(value), Err for tokens that carry no value of
\* their own, and todo!() for Float
Value_try_from(tok) ==
    CASE tok.kind \in {"Array", "Map", "Tag", "Break"} -> [t |-> "Err"]
      [] tok.kind = "Uint" -> [t |-> "Ok", value |-> Value_Uint(tok.n)]
      [] tok.kind = "Nint" -> [t |-> "Ok", value |-> Value_Nint(tok.n)]
      [] tok.kind = "BstrX" -> [t |-> "Ok", value |-> Value_Bstr(<<>>)]
      [] tok.kind = "Bstr" -> [t |-> "Ok", value |-> Value_Bstr(tok.bytes)]
      [] tok.kind = "TstrX" -> [t |-> "Ok", value |-> Value_Tstr(<<>>)]
      [] tok.kind = "Tstr" -> [t |-> "Ok", value |-> Value_Tstr(tok.bytes)]
      [] tok.kind = "ArrayX" -> [t |-> "Ok", value |-> Value_Array(<<>>)]
      [] tok.kind = "MapX" -> [t |-> "Ok", value |-> Value_Map(<<>>)]
      [] tok.kind = "Simple" -> [t |-> "Ok", value |-> Value_Simple(tok.s)]
      [] tok.kind = "Float" -> [t |-> "Panic"]

\* parser results and errors
ROk == [r |-> "Ok"]
OkValue(x) == [r |-> "Some", value |-> x]
Error_Invalid == [e |-> "Invalid"]
Error_Internal == [e |-> "Internal"]
Error_TrailingInput == [e |-> "TrailingInput"]
Error_InsufficientStackSize == [e |-> "InsufficientStackSize"]
Error_UnexpectedT(expected, input) ==
    [e |-> "UnexpectedT", expected |-> expected, input |-> input]
Error_UnexpectedNT(expected, was) ==
    [e |-> "UnexpectedNT", expected |-> expected, was |-> was]
Error_Unexpected(st, nt) == [e |-> "Unexpected", state |-> st, nt |-> nt]

(***************************************************************************)
(* LL parser: context stack and value stack                                *)
(***************************************************************************)
Action(name, n) == [c |-> "Action", name |-> name, n |-> n]
TerminalSymbol(kind) == [c |-> "TerminalSymbol", kind |-> kind]
NonTerminalSymbol(nt) == [c |-> "NonTerminalSymbol", nt |-> nt]

ContextStack_cbor == [inner |-> <<NonTerminalSymbol("Value")>>, upper |-> 16384]

\* a push onto the bounded context stack: the stack and whether it took it
ContextStack_push(cs, x) ==
    IF Len(cs.inner) < cs.upper
    THEN [cs |-> [cs EXCEPT !.inner = Append(@, x)], res |-> ROk]
    ELSE [cs |-> cs, res |-> Err(Error_InsufficientStackSize)]

push_kind(cs, kind) == ContextStack_push(cs, TerminalSymbol(kind))
push_non_term(cs, nt) == ContextStack_push(cs, NonTerminalSymbol(nt))
push_action(cs, name, n) == ContextStack_push(cs, Action(name, n))

\* count is a usize; upper stays far below 2^24
push_multiple_non_term(cs, nt, count) ==
    IF U64Small(count) /\ U64Nat(count) <= cs.upper
       /\ Len(cs.inner) < cs.upper - U64Nat(count)
    THEN [cs |-> [cs EXCEPT !.inner =
                     @ \o [i \in 1..U64Nat(count) |-> NonTerminalSymbol(nt)]],
          res |-> ROk]
    ELSE [cs |-> cs, res |-> Err(Error_InsufficientStackSize)]

ContextStack_pop(cs) == [cs EXCEPT !.inner = SubSeq(@, 1, Len(@) - 1)]
ContextStack_last(cs) == cs.inner[Len(cs.inner)]

\* the value stack of the LL parser is an unbounded vector; its operations
\* panic (ok = FALSE) where an unwrap meets None
VsOk(vs) == [ok |-> TRUE, vs |-> vs]
VsPanic(vs) == [ok |-> FALSE, vs |-> vs]
Pop(vs) == SubSeq(vs, 1, Len(vs) - 1)
Top(vs) == vs[Len(vs)]

\* a count the value stack cannot hold ends in a panic of try_from,
\* with_capacity or pop().unwrap(), whichever the build reaches first
do_array_collect(vs, n) ==
    IF ~U64Small(n) \/ U64Nat(n) > Len(vs) THEN VsPanic(vs)
    ELSE LET k == U64Nat(n)
             values == [i \in 1..k |-> vs[Len(vs) + 1 - i]]
         IN  VsOk(Append(SubSeq(vs, 1, Len(vs) - k), Value_Array(Reverse(values))))

do_array_push(vs) ==
    IF Len(vs) < 2 THEN VsPanic(vs)
    ELSE LET value == Top(vs)
             values == as_array(Top(Pop(vs)))
         IN  IF values.o # "Some" THEN VsPanic(vs)
             ELSE VsOk(Append(Pop(Pop(vs)), Value_Array(Append(values.x, value))))

do_bstr_append(vs) ==
    IF Len(vs) < 1 THEN VsPanic(vs)
    ELSE LET bytes == as_bstr(Top(vs))
         IN  IF bytes.o # "Some" \/ Len(vs) < 2 THEN VsPanic(vs)
             ELSE LET parent == as_bstr(Top(Pop(vs)))
                  IN  IF parent.o # "Some" THEN VsPanic(vs)
                      ELSE VsOk(Append(Pop(Pop(vs)),
                                       Value_Bstr(parent.x \o bytes.x)))

do_map_collect(vs, n) ==
    IF ~U64Small(n) \/ 2 * U64Nat(n) > Len(vs) THEN VsPanic(vs)
    ELSE LET k == U64Nat(n)
             values == [i \in 1..k |->
                           <<vs[Len(vs) - 2 * i + 1], vs[Len(vs) - 2 * i + 2]>>]
         IN  VsOk(Append(SubSeq(vs, 1, Len(vs) - 2 * k),
                         Value_Map(Reverse(values))))

do_map_push(vs) ==
    IF Len(vs) < 3 THEN VsPanic(vs)
    ELSE LET value == Top(vs)
             label == Top(Pop(vs))
             values == as_map(Top(Pop(Pop(vs))))
         IN  IF values.o # "Some" THEN VsPanic(vs)
             ELSE VsOk(Append(Pop(Pop(Pop(vs))),
                              Value_Map(Append(values.x, <<label, value>>))))

do_tag_set(vs, tag) ==
    IF Len(vs) < 1 THEN VsPanic(vs)
    ELSE VsOk(Append(Pop(vs), Value_Tag(tag, Top(vs))))

do_tstr_append(vs) ==
    IF Len(vs) < 1 THEN VsPanic(vs)
    ELSE LET bytes == as_tstr(Top(vs))
         IN  IF bytes.o # "Some" \/ Len(vs) < 2 THEN VsPanic(vs)
             ELSE LET parent == as_tstr(Top(Pop(vs)))
                  IN  IF parent.o # "Some" THEN VsPanic(vs)
                      ELSE VsOk(Append(Pop(Pop(vs)),
                                       Value_Tstr(parent.x \o bytes.x)))

\* the closure an Action context holds, applied to the value stack
RunAction(act, vs) ==
    CASE act.name = "collect_array" -> do_array_collect(vs, act.n)
      [] act.name = "array_push" -> do_array_push(vs)
      [] act.name = "bstr_append" -> do_bstr_append(vs)
      [] act.name = "map_collect" -> do_map_collect(vs, act.n)
      [] act.name = "map_push" -> do_map_push(vs)
      [] act.name = "tag_set" -> do_tag_set(vs, act.n)
      [] act.name = "append_tstr" -> do_tstr_append(vs)

(***************************************************************************)
(* LL parser: do_flush, do_consume, Parser::consume                        *)
(***************************************************************************)
LLResult(cs, vs, res) == [cxt_stack |-> cs, val_stack |-> vs, res |-> res]

\* the pushes of one arm of do_consume_, each followed by `?`: they stop at
\* the first that fails.  A request is a context, or the n-fold push of a
\* non-terminal (whose count is first converted to usize, by unwrap), or the
\* panic of an overflowing multiplication.
RECURSIVE PushAll(_, _)
PushAll(cs, reqs) ==
    IF reqs = <<>> THEN [cs |-> cs, res |-> ROk]
    ELSE LET q == Head(reqs)
             p == CASE q.c = "Multiple" ->
                         IF ~FitsUsize(q.count)
                         THEN [cs |-> cs, res |-> Panicked]
                         ELSE push_multiple_non_term(cs, q.nt, q.count)
                    [] q.c = "Overflow" -> [cs |-> cs, res |-> Panicked]
                    [] OTHER -> ContextStack_push(cs, q)
         IN  IF p.res = ROk THEN PushAll(p.cs, Tail(reqs)) ELSE p

Multiple(nt, count) == [c |-> "Multiple", nt |-> nt, count |-> count]

\* {2n}<VALUE>: the count 2 * n of the map production
TwiceValue(n) ==
    LET m == U64Mul2(n)
    IN  IF m.ok THEN Multiple("Value", m.n) ELSE [c |-> "Overflow"]

ValueKinds ==
    <<"Array", "ArrayX", "Bstr", "BstrX", "Float", "Map", "MapX", "Nint",
      "Simple", "Tag", "Tstr", "TstrX", "Uint">>

RECURSIVE ll_do_flush(_, _)
ll_do_flush_(vs, cs, context) ==
    CASE context.c = "Action" ->
            LET a == RunAction(context, vs)
            IN  IF a.ok THEN ll_do_flush(cs, a.vs)
                ELSE LLResult(cs, a.vs, Panicked)
      [] context.c = "TerminalSymbol" ->
            LET p == push_kind(cs, context.kind)
            IN  LLResult(p.cs, vs, p.res)
      [] context.c = "NonTerminalSymbol" ->
            LET p == push_non_term(cs, context.nt)
            IN  LLResult(p.cs, vs, p.res)

ll_do_flush(cs, vs) ==
    IF cs.inner # <<>>
    THEN ll_do_flush_(vs, ContextStack_pop(cs), ContextStack_last(cs))
    ELSE LLResult(cs, vs, ROk)

RECURSIVE ll_do_consume(_, _, _)
\* an arm that expands a production and consumes the input again
Expanded(vs, p, input) ==
    IF p.res = ROk THEN ll_do_consume(vs, p.cs, input)
    ELSE LLResult(p.cs, vs, p.res)

Expand(vs, cs, reqs, input) == Expanded(vs, PushAll(cs, reqs), input)

\* an arm that puts the context back and complains about the input
Rejected(vs, p, expected, input) ==
    IF p.res = ROk
    THEN LLResult(p.cs, vs, Err(Error_UnexpectedT(expected, input)))
    ELSE LLResult(p.cs, vs, p.res)

\* the arm as it would be if it did not put the context back
Reject_forgets(vs, cs, context, expected, input) ==
    Rejected(vs, [cs |-> cs, res |-> ROk], expected, input)

Reject(vs, cs, context, expected, input) ==
    Rejected(vs, ContextStack_push(cs, context), expected, input)

ll_do_consume_(vs, cs, context, input) ==
    CASE context.c = "Action" ->
            LET a == RunAction(context, vs)
            IN  IF a.ok THEN ll_do_consume(a.vs, cs, input)
                ELSE LLResult(cs, a.vs, Panicked)
      [] context.c = "TerminalSymbol" /\ context.kind = input.kind ->
            LET value == Value_try_from(input)
            IN  IF value.t = "Panic" THEN LLResult(cs, vs, Panicked)
                ELSE IF value.t = "Ok"
                     THEN ll_do_flush(cs, Append(vs, value.value))
                ELSE ll_do_flush(cs, vs)
      [] context.c = "TerminalSymbol" /\ context.kind # input.kind ->
            Reject(vs, cs, context, <<context.kind>>, input)
      [] context.c = "NonTerminalSymbol" /\ context.nt = "Value" ->
            IF input.kind = "Break"
            THEN Reject(vs, cs, context, ValueKinds, input)
            ELSE IF input.kind \in {"Uint", "Nint", "Simple", "Float"}
                 THEN Expand(vs, cs, <<TerminalSymbol(input.kind)>>, input)
            ELSE IF input.kind \in {"Bstr", "BstrX"}
                 THEN Expand(vs, cs, <<NonTerminalSymbol("Bstr")>>, input)
            ELSE IF input.kind \in {"Tstr", "TstrX"}
                 THEN Expand(vs, cs, <<NonTerminalSymbol("Tstr")>>, input)
            ELSE IF input.kind \in {"Array", "ArrayX"}
                 THEN Expand(vs, cs, <<NonTerminalSymbol("Array")>>, input)
            ELSE IF input.kind \in {"Map", "MapX"}
                 THEN Expand(vs, cs, <<NonTerminalSymbol("Map")>>, input)
            ELSE Expand(vs, cs, <<NonTerminalSymbol("Tag")>>, input)
      [] context.c = "NonTerminalSymbol" /\ context.nt = "Array" ->
            IF input.kind = "Array"
            THEN Expand(vs, cs, <<Action("collect_array", input.n),
                                  Multiple("Value", input.n),
                                  TerminalSymbol("Array")>>, input)
            ELSE IF input.kind = "ArrayX"
                 THEN Expand(vs, cs, <<NonTerminalSymbol("ArrayXSeq"),
                                       TerminalSymbol("ArrayX")>>, input)
            ELSE Reject(vs, cs, context, <<"Array", "ArrayX">>, input)
      [] context.c = "NonTerminalSymbol" /\ context.nt = "ArrayXSeq" ->
            IF input.kind = "Break"
            THEN Expand(vs, cs, <<TerminalSymbol("Break")>>, input)
            ELSE Expand(vs, cs, <<NonTerminalSymbol("ArrayXSeq"),
                                  Action("array_push", U64Zero),
                                  NonTerminalSymbol("Value")>>, input)
      [] context.c = "NonTerminalSymbol" /\ context.nt = "Bstr" ->
            IF input.kind = "Bstr"
            THEN Expand(vs, cs, <<TerminalSymbol("Bstr")>>, input)
            ELSE IF input.kind = "BstrX"
                 THEN Expand(vs, cs, <<NonTerminalSymbol("BstrXSeq"),
                                       TerminalSymbol("BstrX")>>, input)
            ELSE Reject(vs, cs, context, <<"Bstr", "BstrX">>, input)
      [] context.c = "NonTerminalSymbol" /\ context.nt = "BstrXSeq" ->
            IF input.kind = "Break"
            THEN Expand(vs, cs, <<TerminalSymbol("Break")>>, input)
            ELSE IF input.kind \in {"Bstr", "BstrX"}
                 THEN Expand(vs, cs, <<NonTerminalSymbol("BstrXSeq"),
                                       Action("bstr_append", U64Zero),
                                       NonTerminalSymbol("Bstr")>>, input)
            ELSE Reject(vs, cs, context, <<"Break", "Bstr", "BstrX">>, input)
      [] context.c = "NonTerminalSymbol" /\ context.nt = "Map" ->
            IF input.kind = "Map"
            THEN Expand(vs, cs, <<Action("map_collect", input.n),
                                  TwiceValue(input.n),
                                  TerminalSymbol("Map")>>, input)
            ELSE IF input.kind = "MapX"
                 THEN Expand(vs, cs, <<NonTerminalSymbol("MapXSeq"),
                                       TerminalSymbol("MapX")>>, input)
            ELSE Reject(vs, cs, context, <<"Map", "MapX">>, input)
      [] context.c = "NonTerminalSymbol" /\ context.nt = "MapXSeq" ->
            IF input.kind = "Break"
            THEN Expand(vs, cs, <<TerminalSymbol("Break")>>, input)
            ELSE Expand(vs, cs, <<NonTerminalSymbol("MapXSeq"),
                                  Action("map_push", U64Zero),
                                  NonTerminalSymbol("Value"),
                                  NonTerminalSymbol("Value")>>, input)
      [] context.c = "NonTerminalSymbol" /\ context.nt = "Tag" ->
            IF input.kind = "Tag"
            THEN Expand(vs, cs, <<Action("tag_set", input.n),
                                  NonTerminalSymbol("Value"),
                                  TerminalSymbol("Tag")>>, input)
            ELSE Reject(vs, cs, context, <<"Tag">>, input)
      [] context.c = "NonTerminalSymbol" /\ context.nt = "Tstr" ->
            IF input.kind = "Tstr"
            THEN Expand(vs, cs, <<TerminalSymbol("Tstr")>>, input)
            ELSE IF input.kind = "TstrX"
                 THEN Expand(vs, cs, <<NonTerminalSymbol("TstrXSeq"),
                                       TerminalSymbol("TstrX")>>, input)
            ELSE Reject(vs, cs, context, <<"Tstr", "TstrX">>, input)
      [] context.c = "NonTerminalSymbol" /\ context.nt = "TstrXSeq" ->
            IF input.kind = "Break"
            THEN Expand(vs, cs, <<TerminalSymbol("Break")>>, input)
            ELSE IF input.kind \in {"Tstr", "TstrX"}
                 THEN Expand(vs, cs, <<NonTerminalSymbol("TstrXSeq"),
                                       Action("append_tstr", U64Zero),
                                       NonTerminalSymbol("Tstr")>>, input)
            ELSE Reject(vs, cs, context, <<"Break", "Tstr", "TstrX">>, input)

ll_do_consume(vs, cs, input) ==
    IF cs.inner # <<>>
    THEN ll_do_consume_(vs, ContextStack_pop(cs), ContextStack_last(cs),
                        input)
    ELSE LLResult(cs, vs, Err(Error_TrailingInput))

ll_Parser_cbor == [cxt_stack |-> ContextStack_cbor, val_stack |-> <<>>]

\* Parser::consume of the LL parser: the parser afterwards and what it returns
\* the stacks do_consume leaves in self.inner
Inner(d) == [cxt_stack |-> d.cxt_stack, val_stack |-> d.val_stack]

\* Parser::consume as it would be if it handed out the value and kept it
\* on the value stack
ll_Parser_consumed_keeps_value(d) ==
    IF d.res # ROk THEN [inner |-> Inner(d), ret |-> d.res]
    ELSE IF Len(d.cxt_stack.inner) > 0
         THEN [inner |-> Inner(d), ret |-> OkNone]
    ELSE IF Len(d.val_stack) > 1
         THEN [inner |-> Inner(d), ret |-> Err(Error_Internal)]
    ELSE IF Len(d.val_stack) = 1
         THEN [inner |-> Inner(d), ret |-> OkValue(d.val_stack[1])]
    ELSE [inner |-> Inner(d), ret |-> Err(Error_Invalid)]

\* Parser::consume as it would be if an empty value stack were reported
\* like a value stack of several values
ll_Parser_consumed_internal(d) ==
    IF d.res # ROk THEN [inner |-> Inner(d), ret |-> d.res]
    ELSE IF Len(d.cxt_stack.inner) > 0
         THEN [inner |-> Inner(d), ret |-> OkNone]
    ELSE IF Len(d.val_stack) = 1
         THEN [inner |-> [Inner(d) EXCEPT !.val_stack = <<>>],
               ret |-> OkValue(d.val_stack[1])]
    ELSE [inner |-> Inner(d), ret |-> Err(Error_Internal)]

\* Parser::consume after self.inner.do_consume(term) returned d
ll_Parser_consumed(d) ==
    IF d.res # ROk THEN [inner |-> Inner(d), ret |-> d.res]
    ELSE IF Len(d.cxt_stack.inner) > 0
         THEN [inner |-> Inner(d), ret |-> OkNone]
    ELSE IF Len(d.val_stack) > 1
         THEN [inner |-> Inner(d), ret |-> Err(Error_Internal)]
    ELSE IF Len(d.val_stack) = 1
         THEN [inner |-> [Inner(d) EXCEPT !.val_stack = <<>>],
               ret |-> OkValue(d.val_stack[1])]
    ELSE [inner |-> Inner(d), ret |-> Err(Error_Invalid)]

ll_Parser_consume(inner, term) ==
    ll_Parser_consumed(ll_do_consume(inner.val_stack, inner.cxt_stack, term))

(***************************************************************************)
(* LR parser: states, stacks, reductions                                   *)
(***************************************************************************)
State(name) == [s |-> name]
State_n(name, n) == [s |-> name, n |-> n]
State_bytes(name, bs) == [s |-> name, bytes |-> bs]
ValueArray(k, n) == [s |-> "ValueArray", k |-> k, n |-> n]
ValueMap(k, n) == [s |-> "ValueMap", k |-> k, n |-> n]

\* array_next as it would be if the state after an element were always the
\* last one
array_next_jumps(k, n) == ValueArray(n, n)

array_next(k, n) == IF U64Lt(k, n) THEN ValueArray(U64Inc(k), n) ELSE ValueArray(n, n)
map_next(k, n) == IF U64Lt(k, n) THEN ValueMap(U64Inc(k), n) ELSE ValueMap(n, n)

StateStack_cbor == [inner |-> <<State("Init")>>, upper |-> 16384]
ValueStack_default == [inner |-> <<>>, upper |-> 16384]

lr_Parser_cbor == [states |-> StateStack_cbor, values |-> ValueStack_default]

DropLast(s, k) == SubSeq(s, 1, Len(s) - k)

\* the bounded pushes of the two stacks
Stack_push(st, x) ==
    IF Len(st.inner) < st.upper
    THEN [st |-> [st EXCEPT !.inner = Append(@, x)], res |-> ROk]
    ELSE [st |-> st, res |-> Err(Error_InsufficientStackSize)]

\* the result of a reduction: the parser afterwards and Ok(non-terminal),
\* Err(error) or a panic
Reduced(p, nt) == [p |-> p, res |-> [r |-> "NT", nt |-> nt]]
ReduceFailed(p, res) == [p |-> p, res |-> res]

\* the k topmost states are the named ones, topmost first
TopStates(p, names) ==
    /\ Len(p.states.inner) >= Len(names)
    /\ \A i \in 1..Len(names) :
          p.states.inner[Len(p.states.inner) + 1 - i].s = names[i]

PopStates(p, k) == [p EXCEPT !.states.inner = DropLast(@, k)]

\* pop the named states, then values.push(value)?
ReducePush(p, names, value, nt) ==
    IF ~TopStates(p, names) THEN ReduceFailed(p, Panicked)
    ELSE LET q == PopStates(p, Len(names))
             v == Stack_push(q.values, value)
         IN  IF v.res = ROk THEN Reduced([q EXCEPT !.values = v.st], nt)
             ELSE ReduceFailed(q, v.res)

\* pop the named states, then rewrite the top of the value stack by an
\* operation that panics where it does not find what it expects
ReduceMerge(p, names, merged, nt) ==
    IF ~TopStates(p, names) THEN ReduceFailed(p, Panicked)
    ELSE LET q == PopStates(p, Len(names))
         IN  IF merged.ok THEN Reduced([q EXCEPT !.values.inner = merged.vs], nt)
             ELSE ReduceFailed(q, Panicked)

merge_value_array(vs) ==
    IF Len(vs) < 1 THEN VsPanic(vs)
    ELSE LET elements == as_array(Top(vs))
         IN  IF elements.o # "Some" \/ Len(vs) < 2 THEN VsPanic(vs)
             ELSE VsOk(Append(Pop(Pop(vs)),
                              Value_Array(Append(elements.x, Top(Pop(vs))))))

merge_value_value_map(vs) ==
    IF Len(vs) < 1 THEN VsPanic(vs)
    ELSE LET entries == as_map(Top(vs))
         IN  IF entries.o # "Some" \/ Len(vs) < 3 THEN VsPanic(vs)
             ELSE LET value2 == Top(Pop(vs))
                      value1 == Top(Pop(Pop(vs)))
                  IN  VsOk(Append(Pop(Pop(Pop(vs))),
                                  Value_Map(Append(entries.x, <<value1, value2>>))))

reverse_array(vs) ==
    IF Len(vs) < 1 THEN VsPanic(vs)
    ELSE LET elements == as_array(Top(vs))
         IN  IF elements.o # "Some" THEN VsPanic(vs)
             ELSE VsOk(Append(Pop(vs), Value_Array(Reverse(elements.x))))

reverse_map(vs) ==
    IF Len(vs) < 1 THEN VsPanic(vs)
    ELSE LET elements == as_map(Top(vs))
         IN  IF elements.o # "Some" THEN VsPanic(vs)
             ELSE VsOk(Append(Pop(vs), Value_Map(Reverse(elements.x))))

bstr_prepend(vs, bytes) ==
    IF Len(vs) < 1 THEN VsPanic(vs)
    ELSE LET more_bytes == as_bstr(Top(vs))
         IN  IF more_bytes.o # "Some" THEN VsPanic(vs)
             ELSE VsOk(Append(Pop(vs), Value_Bstr(bytes \o more_bytes.x)))

tstr_prepend(vs, bytes) ==
    IF Len(vs) < 1 THEN VsPanic(vs)
    ELSE LET more_bytes == as_tstr(Top(vs))
         IN  IF more_bytes.o # "Some" THEN VsPanic(vs)
             ELSE VsOk(Append(Pop(vs), Value_Tstr(bytes \o more_bytes.x)))

to_tagged(vs, tag) ==
    IF Len(vs) < 1 THEN VsPanic(vs)
    ELSE VsOk(Append(Pop(vs), Value_Tag(tag, Top(vs))))

TopState(p) == Top(p.states.inner)
StateBelow(p) == p.states.inner[Len(p.states.inner) - 1]

reduce01(p) == ReducePush(p, <<"ValueUint">>, Value_Uint(TopState(p).n), "Value")
reduce02(p) == ReducePush(p, <<"ValueNint">>, Value_Nint(TopState(p).n), "Value")
reduce03(p) == ReducePush(p, <<"ValueFloat">>, Value_Float(TopState(p).n), "Value")
reduce04(p) ==
    IF TopStates(p, <<"ValueBstr">>) THEN Reduced(PopStates(p, 1), "Value")
    ELSE ReduceFailed(p, Panicked)
reduce05(p) ==
    IF TopStates(p, <<"ValueTstr">>) THEN Reduced(PopStates(p, 1), "Value")
    ELSE ReduceFailed(p, Panicked)
reduce06(p) == ReducePush(p, <<"ValueSimple">>, Value_Simple(TopState(p).n), "Value")
reduce07(p) ==
    ReduceMerge(p, <<"ValueTag", "TagNumber">>,
                to_tagged(p.values.inner, StateBelow(p).n), "Value")

\* a count of 2^24 or more ends in a panic: of try_from, of with_capacity
\* or of the pop that finds the stack exhausted
reduce08(p) ==
    IF ~TopStates(p, <<"ValueArray">>) \/ TopState(p).k # TopState(p).n
       \/ ~U64Small(TopState(p).n)
    THEN ReduceFailed(p, Panicked)
    ELSE LET n == TopState(p).n
             count == U64Nat(n)
             q == PopStates(p, 1)
             ss == q.states.inner
             vs == q.values.inner
         IN  IF \/ Len(ss) < count
                \/ Len(vs) < count
                \/ \E i \in 0..(count - 1) :
                      ss[Len(ss) - i] # ValueArray(U64OfNat(count - i - 1), n)
             THEN ReduceFailed(q, Panicked)
             ELSE LET result == [i \in 1..count |-> vs[Len(vs) + 1 - i]]
                      r == [q EXCEPT !.states.inner = DropLast(ss, count),
                                     !.values.inner = DropLast(vs, count)]
                      v == Stack_push(r.values, Value_Array(Reverse(result)))
                  IN  IF v.res = ROk
                      THEN Reduced([r EXCEPT !.values = v.st], "Value")
                      ELSE ReduceFailed(r, v.res)

reduce09(p) ==
    ReduceMerge(p, <<"ValueArrayX", "ArrayXSeqOpen">>,
                reverse_array(p.values.inner), "Value")

reduce10(p) ==
    IF ~TopStates(p, <<"ValueMap">>) \/ TopState(p).k # TopState(p).n
       \/ ~U64Small(TopState(p).n) \/ TopState(p).n[8] % 2 # 0
    THEN ReduceFailed(p, Panicked)
    ELSE LET n == TopState(p).n
             count == U64Nat(n)
             half_n == count \div 2
             q == PopStates(p, 1)
             ss == q.states.inner
             vs == q.values.inner
         IN  IF \/ Len(ss) < count
                \/ Len(vs) < count
                \/ \E i \in 0..(count - 1) :
                      ss[Len(ss) - i] # ValueMap(U64OfNat(count - i - 1), n)
             THEN ReduceFailed(q, Panicked)
             ELSE LET result == [i \in 1..half_n |->
                                    <<vs[Len(vs) - 2 * i + 1],
                                      vs[Len(vs) - 2 * i + 2]>>]
                      r == [q EXCEPT !.states.inner = DropLast(ss, count),
                                     !.values.inner = DropLast(vs, count)]
                      v == Stack_push(r.values, Value_Map(Reverse(result)))
                  IN  IF v.res = ROk
                      THEN Reduced([r EXCEPT !.values = v.st], "Value")
                      ELSE ReduceFailed(r, v.res)

reduce11(p) ==
    ReduceMerge(p, <<"ValueMapX", "MapXSeqOpen">>,
                reverse_map(p.values.inner), "Value")
reduce12(p) == ReducePush(p, <<"BstrBstr">>, Value_Bstr(TopState(p).bytes), "Bstr")
reduce13(p) ==
    IF TopStates(p, <<"BstrBstrX", "BstrXSeqOpen">>)
    THEN Reduced(PopStates(p, 2), "Bstr")
    ELSE ReduceFailed(p, Panicked)
reduce14(p) == ReducePush(p, <<"TstrTstr">>, Value_Tstr(TopState(p).bytes), "Tstr")
reduce15(p) ==
    IF TopStates(p, <<"TstrTstrX", "TstrXSeqOpen">>)
    THEN Reduced(PopStates(p, 2), "Tstr")
    ELSE ReduceFailed(p, Panicked)
reduce16(p) == ReducePush(p, <<"BstrXSeqBreak">>, Value_Bstr(<<>>), "BstrXSeq")
reduce17(p) ==
    ReduceMerge(p, <<"BstrXSeqMore", "BstrXSeqBstr">>,
                bstr_prepend(p.values.inner, StateBelow(p).bytes), "BstrXSeq")
reduce18(p) == ReducePush(p, <<"TstrXSeqBreak">>, Value_Tstr(<<>>), "TstrXSeq")
reduce19(p) ==
    ReduceMerge(p, <<"TstrXSeqMore", "TstrXSeqTstr">>,
                tstr_prepend(p.values.inner, StateBelow(p).bytes), "TstrXSeq")
reduce20(p) == ReducePush(p, <<"ArrayXSeqBreak">>, Value_Array(<<>>), "ArrayXSeq")
reduce21(p) ==
    ReduceMerge(p, <<"ArrayXSeqMore", "ArrayXSeqValue">>,
                merge_value_array(p.values.inner), "ArrayXSeq")
reduce22(p) == ReducePush(p, <<"MapXSeqBreak">>, Value_Map(<<>>), "MapXSeq")
reduce23(p) ==
    ReduceMerge(p, <<"MapXSeqMore", "MapXSeqValue2", "MapXSeqValue1">>,
                merge_value_value_map(p.values.inner), "MapXSeq")

\* rule.reduce of PRODUCTION_01 .. PRODUCTION_23
Production_reduce(rule, p) ==
    CASE rule = 1 -> reduce01(p) [] rule = 2 -> reduce02(p)
      [] rule = 3 -> reduce03(p) [] rule = 4 -> reduce04(p)
      [] rule = 5 -> reduce05(p) [] rule = 6 -> reduce06(p)
      [] rule = 7 -> reduce07(p) [] rule = 8 -> reduce08(p)
      [] rule = 9 -> reduce09(p) [] rule = 10 -> reduce10(p)
      [] rule = 11 -> reduce11(p) [] rule = 12 -> reduce12(p)
      [] rule = 13 -> reduce13(p) [] rule = 14 -> reduce14(p)
      [] rule = 15 -> reduce15(p) [] rule = 16 -> reduce16(p)
      [] rule = 17 -> reduce17(p) [] rule = 18 -> reduce18(p)
      [] rule = 19 -> reduce19(p) [] rule = 20 -> reduce20(p)
      [] rule = 21 -> reduce21(p) [] rule = 22 -> reduce22(p)
      [] rule = 23 -> reduce23(p)

(***************************************************************************)
(* LR parser: next_action, goto, do_consume                                *)
(***************************************************************************)
NoTerm == [kind |-> "None"]

Shift(st) == [a |-> "Shift", state |-> st]
Reduce(rule) == [a |-> "Reduce", rule |-> rule]
Accept == [a |-> "Accept"]
NoAction == [a |-> "None"]
ActionPanic == [a |-> "Panic"]

\* the shift of %map(n): the state counts 2 * n values
ShiftMap(n) ==
    LET m == U64Mul2(n)
    IN  IF m.ok THEN Shift(ValueMap(U64Zero, m.n)) ELSE ActionPanic

start_value(term, on_break) ==
    CASE term.kind = "None" -> NoAction
      [] term.kind = "Uint" -> Shift(State_n("ValueUint", term.n))
      [] term.kind = "Nint" -> Shift(State_n("ValueNint", term.n))
      [] term.kind = "Float" -> Shift(State_n("ValueFloat", term.n))
      [] term.kind = "Simple" -> Shift(State_n("ValueSimple", term.s))
      [] term.kind = "Tag" -> Shift(State_n("TagNumber", term.n))
      [] term.kind = "Bstr" -> Shift(State_bytes("BstrBstr", term.bytes))
      [] term.kind = "BstrX" -> Shift(State("BstrXSeqOpen"))
      [] term.kind = "Tstr" -> Shift(State_bytes("TstrTstr", term.bytes))
      [] term.kind = "TstrX" -> Shift(State("TstrXSeqOpen"))
      [] term.kind = "Array" -> Shift(ValueArray(U64Zero, term.n))
      [] term.kind = "ArrayX" -> Shift(State("ArrayXSeqOpen"))
      [] term.kind = "Map" -> ShiftMap(term.n)
      [] term.kind = "MapX" -> Shift(State("MapXSeqOpen"))
      [] OTHER -> on_break

start_value_or_panic(term) == start_value(term, ActionPanic)

start_bstrx_or_panic(term) ==
    CASE term.kind = "None" -> NoAction
      [] term.kind = "Break" -> Shift(State("BstrXSeqBreak"))
      [] term.kind = "Bstr" -> Shift(State_bytes("BstrXSeqBstr", term.bytes))
      [] OTHER -> ActionPanic

start_tstrx_or_panic(term) ==
    CASE term.kind = "None" -> NoAction
      [] term.kind = "Break" -> Shift(State("TstrXSeqBreak"))
      [] term.kind = "Tstr" -> Shift(State_bytes("TstrXSeqTstr", term.bytes))
      [] OTHER -> ActionPanic

next_action(st, term) ==
    CASE st.s = "Invalid" -> ActionPanic
      [] st.s = "Accept" -> Accept
      [] st.s = "ValueUint" -> Reduce(1)
      [] st.s = "ValueNint" -> Reduce(2)
      [] st.s = "ValueFloat" -> Reduce(3)
      [] st.s = "ValueBstr" -> Reduce(4)
      [] st.s = "ValueTstr" -> Reduce(5)
      [] st.s = "ValueSimple" -> Reduce(6)
      [] st.s = "ValueTag" -> Reduce(7)
      [] st.s = "ValueArray" /\ st.k = st.n -> Reduce(8)
      [] st.s = "ValueArrayX" -> Reduce(9)
      [] st.s = "ValueMap" /\ st.k = st.n -> Reduce(10)
      [] st.s = "ValueMapX" -> Reduce(11)
      [] st.s = "BstrBstr" -> Reduce(12)
      [] st.s = "BstrBstrX" -> Reduce(13)
      [] st.s = "TstrTstr" -> Reduce(14)
      [] st.s = "TstrTstrX" -> Reduce(15)
      [] st.s = "BstrXSeqBreak" -> Reduce(16)
      [] st.s = "BstrXSeqMore" -> Reduce(17)
      [] st.s = "TstrXSeqBreak" -> Reduce(18)
      [] st.s = "TstrXSeqMore" -> Reduce(19)
      [] st.s = "ArrayXSeqBreak" -> Reduce(20)
      [] st.s = "ArrayXSeqMore" -> Reduce(21)
      [] st.s = "MapXSeqBreak" -> Reduce(22)
      [] st.s = "MapXSeqMore" -> Reduce(23)
      [] st.s \in {"Init", "TagNumber", "MapXSeqValue1"} ->
            start_value_or_panic(term)
      [] st.s \in {"ValueArray", "ValueMap"} /\ U64Lt(st.k, st.n) ->
            start_value_or_panic(term)
      [] st.s \in {"BstrXSeqOpen", "BstrXSeqBstr"} -> start_bstrx_or_panic(term)
      [] st.s \in {"TstrXSeqOpen", "TstrXSeqTstr"} -> start_tstrx_or_panic(term)
      [] st.s \in {"ArrayXSeqOpen", "ArrayXSeqValue"} ->
            start_value(term, Shift(State("ArrayXSeqBreak")))
      [] st.s \in {"MapXSeqOpen", "MapXSeqValue2"} ->
            start_value(term, Shift(State("MapXSeqBreak")))
      [] st.s \in {"ValueArray", "ValueMap"} /\ U64Lt(st.n, st.k) ->
            Shift(State("Invalid"))

GotoOk(st) == [g |-> "Ok", state |-> st]
GotoErr(e) == [g |-> "Err", err |-> e]

\* the goto! macro: the listed non-terminals lead on, any other is unexpected
GotoTable(nt, expected, targets) ==
    IF \E i \in 1..Len(expected) : expected[i] = nt
    THEN GotoOk(targets[CHOOSE i \in 1..Len(expected) : expected[i] = nt])
    ELSE GotoErr(Error_UnexpectedNT(expected, nt))

goto2(st, nt) ==
    CASE st.s = "Init" ->
            GotoTable(nt, <<"Value", "Bstr", "Tstr">>,
                      <<State("Accept"), State("ValueBstr"), State("ValueTstr")>>)
      [] st.s = "TagNumber" -> GotoTable(nt, <<"Value">>, <<State("ValueTag")>>)
      [] st.s = "BstrXSeqOpen" ->
            GotoTable(nt, <<"BstrXSeq">>, <<State("BstrBstrX")>>)
      [] st.s = "BstrXSeqBstr" ->
            GotoTable(nt, <<"BstrXSeq">>, <<State("BstrXSeqMore")>>)
      [] st.s = "TstrXSeqOpen" ->
            GotoTable(nt, <<"TstrXSeq">>, <<State("TstrTstrX")>>)
      [] st.s = "TstrXSeqTstr" ->
            GotoTable(nt, <<"TstrXSeq">>, <<State("TstrXSeqMore")>>)
      [] st.s = "ArrayXSeqOpen" ->
            GotoTable(nt, <<"ArrayXSeq", "Value">>,
                      <<State("ValueArrayX"), State("ArrayXSeqValue")>>)
      [] st.s = "ArrayXSeqValue" ->
            GotoTable(nt, <<"ArrayXSeq", "Value">>,
                      <<State("ArrayXSeqMore"), State("ArrayXSeqValue")>>)
      [] st.s = "ValueArray" ->
            GotoTable(nt, <<"Value">>, <<array_next(st.k, st.n)>>)
      [] st.s = "MapXSeqOpen" ->
            GotoTable(nt, <<"MapXSeq", "Value">>,
                      <<State("ValueMapX"), State("MapXSeqValue1")>>)
      [] st.s = "MapXSeqValue1" ->
            GotoTable(nt, <<"Value">>, <<State("MapXSeqValue2")>>)
      [] st.s = "MapXSeqValue2" ->
            GotoTable(nt, <<"MapXSeq", "Value">>,
                      <<State("MapXSeqMore"), State("MapXSeqValue1")>>)
      [] st.s = "ValueMap" ->
            GotoTable(nt, <<"Value">>, <<map_next(st.k, st.n)>>)
      [] OTHER -> GotoErr(Error_Unexpected(st, nt))

goto(states, nt) ==
    IF states.inner = <<>> THEN GotoErr(Error_Unexpected(State("None"), nt))
    ELSE goto2(Top(states.inner), nt)

LRResult(p, res) == [p |-> p, ret |-> res]

accept(p) ==
    IF ~TopStates(p, <<"Accept">>) \/ p.values.inner = <<>>
    THEN LRResult(p, Panicked)
    ELSE LRResult([p EXCEPT !.states.inner = Pop(@), !.values.inner = Pop(@)],
                  OkValue(Top(p.values.inner)))

RECURSIVE lr_do_consume(_, _)
\* self.states.push(state)?; self.do_consume(None), s being what the push
\* made of the state stack
Pushed(p, s) ==
    IF s.res = ROk THEN lr_do_consume([p EXCEPT !.states = s.st], NoTerm)
    ELSE LRResult(p, s.res)

shift(p, st) == Pushed(p, Stack_push(p.states, st))

\* reduce after self.goto(nt) returned next_state
Reduced_goto(p, next_state) ==
    IF next_state.g = "Err" THEN LRResult(p, Err(next_state.err))
    ELSE Pushed(p, Stack_push(p.states, next_state.state))

\* reduce after (rule.reduce)(self) returned r
Reduced_rule(r) ==
    IF r.res.r # "NT" THEN LRResult(r.p, r.res)
    ELSE Reduced_goto(r.p, goto(r.p.states, r.res.nt))

reduce(p, rule) == Reduced_rule(Production_reduce(rule, p))

\* the match on the action in do_consume
Dispatch(p, action) ==
    CASE action.a = "None" -> LRResult(p, OkNone)
      [] action.a = "Panic" -> LRResult(p, Panicked)
      [] action.a = "Shift" -> shift(p, action.state)
      [] action.a = "Reduce" -> reduce(p, action.rule)
      [] action.a = "Accept" -> accept(p)

lr_do_consume(p, term) ==
    IF p.states.inner = <<>> THEN LRResult(p, Err(Error_Invalid))
    ELSE Dispatch(p, next_action(Top(p.states.inner), term))

lr_Parser_consume(p, term) == lr_do_consume(p, term)

(***************************************************************************)
(* Token::from(i64)                                                        *)
(***************************************************************************)
\* an i64 is the tuple of its 8 bytes in two's complement, most significant
\* first; it is negative when its top bit is set
I64Negative(a) == a[1] >= 128

I64MinusOne == <<255, 255, 255, 255, 255, 255, 255, 255>>

\* the bytes of a - b from byte i upwards, given the borrow into byte i
RECURSIVE I64SubAt(_, _, _, _)
I64SubAt(a, b, i, borrow) ==
    IF i = 0 THEN <<>>
    ELSE Append(I64SubAt(a, b, i - 1,
                         IF a[i] - b[i] - borrow < 0 THEN 1 ELSE 0),
                (a[i] - b[i] - borrow + 256) % 256)

\* a - b on i64: the wrapped difference and whether it left the range
I64Sub(a, b) ==
    [n |-> I64SubAt(a, b, 8, 0),
     ok |-> ~(I64Negative(a) # I64Negative(b)
              /\ I64Negative(I64SubAt(a, b, 8, 0)) # I64Negative(a))]

\* u64::try_from(i64).unwrap()
U64TryFromI64(a) == IF I64Negative(a) THEN Panicked ELSE a

\* the difference d handed to u64::try_from(..).unwrap() and Token::Nint;
\* an overflowing subtraction panics where the build checks for it
Nint_of(d) ==
    IF ~d.ok /\ overflow_checks THEN Panicked
    ELSE IF U64TryFromI64(d.n) = Panicked THEN Panicked
    ELSE TokNint(U64TryFromI64(d.n))

\* Token::from as it would be if it negated a negative value
Token_from_i64_negates(value) ==
    IF I64Negative(value) THEN Nint_of(I64Sub(U64Zero, value))
    ELSE IF U64TryFromI64(value) = Panicked THEN Panicked
    ELSE TokUint(U64TryFromI64(value))

\* impl From<i64> for Token
Token_from_i64(value) ==
    IF I64Negative(value) THEN Nint_of(I64Sub(I64MinusOne, value))
    ELSE IF U64TryFromI64(value) = Panicked THEN Panicked
    ELSE TokUint(U64TryFromI64(value))

(***************************************************************************)
(* Scanner: actions                                                        *)
(***************************************************************************)
ScannerAlive == ret.r # "Panic"

\* the environment stops feeding a payload at MaxPay buffered bytes
WithinPay(st) == st.tag = "Pay" => Len(st.bytes) < MaxPay

Consume(b) ==
    /\ ScannerAlive
    /\ WithinPay(state)
    /\ LET c == Scanner_consume(state, b)
       IN  /\ state' = c.state
           /\ ret' = c.ret
           /\ fresh' = (c.ret.r # "None")
    /\ op' = "consume"
    /\ byte' = b
    /\ pre_tag' = state.tag
    /\ item' = ItemNext(item, fresh, b)
    /\ given' = <<>>
    /\ rest' = <<>>
    /\ UNCHANGED <<build_vars, parse_vars, conv_vars>>

ConsumeUntilComplete(iter) ==
    /\ ScannerAlive
    /\ WithinPay(state)
    /\ LET c == Scanner_consume_until_complete(state, iter)
           used == SubSeq(iter, 1, Len(iter) - Len(c.rest))
       IN  /\ state' = c.state
           /\ ret' = c.ret
           /\ rest' = c.rest
           /\ item' = IF used = <<>> THEN item
                      ELSE IF fresh THEN used ELSE item \o used
           /\ fresh' = IF used = <<>> THEN fresh ELSE c.ret.r # "None"
    /\ op' = "iter"
    /\ byte' = 0
    /\ pre_tag' = state.tag
    /\ given' = iter
    /\ UNCHANGED <<build_vars, parse_vars, conv_vars>>

Reset ==
    /\ ScannerAlive
    /\ state' = Scanner_reset(state)
    /\ ret' = Unit
    /\ op' = "reset"
    /\ byte' = 0
    /\ pre_tag' = state.tag
    /\ item' = <<>>
    /\ fresh' = TRUE
    /\ given' = <<>>
    /\ rest' = <<>>
    /\ UNCHANGED <<build_vars, parse_vars, conv_vars>>

\* Scanner::default()
ScannerNew ==
    /\ state = ScanStateDefault
    /\ ret = NoCall
    /\ op = "new"
    /\ byte = 0
    /\ pre_tag = "Head"
    /\ item = <<>>
    /\ fresh = TRUE
    /\ given = <<>>
    /\ rest = <<>>

\* ll::Parser::cbor() and lr::Parser::cbor()
ParsersNew ==
    /\ ll_inner = ll_Parser_cbor
    /\ ll_ret = NoCall
    /\ ll_inited = FALSE
    /\ lr_parser = lr_Parser_cbor
    /\ lr_ret = NoCall
    /\ toks = <<>>

\* no conversion asked for
ConvNew ==
    /\ token_in = TokBreak
    /\ converted = NoCall
    /\ int_in = U64Zero
    /\ token_out = NoCall

\* the scanner multiplies nothing: the overflow checks of the build do not
\* bear on it
ScanInit ==
    /\ usize_bits \in {32, 64}
    /\ overflow_checks = FALSE
    /\ ScannerNew
    /\ ParsersNew
    /\ ConvNew

\* the bytes the environment offers in each scanner state
ScanInputs ==
    CASE state.tag = "Head" -> Bytes
      [] state.tag = "Arg" -> IF state.pending = 1 THEN LowArgBytes ELSE HighArgBytes
      [] state.tag = "Pay" -> PayBytes

SeqsUpTo(S, n) == UNION {[1..k -> S] : k \in 0..n}

\* byte-by-byte use of one scanner
NextScan ==
    \/ \E b \in ScanInputs : Consume(b)
    \/ Reset

SpecScan == ScanInit /\ [][NextScan]_vars

\* use of one scanner through consume_until_complete
NextIter ==
    \/ \E iter \in SeqsUpTo(IterBytes, MaxIter) : ConsumeUntilComplete(iter)
    \/ \E b \in IterBytes : Consume(b)
    \/ Reset

SpecIter == ScanInit /\ [][NextIter]_vars

(***************************************************************************)
(* Parsers: actions                                                        *)
(***************************************************************************)
\* the tokens offered to the parsers
ParseTokens ==
    {TokUint(U64FromByte(1)), TokNint(U64Zero), TokSimple(20),
     TokFloat(U64FromByte(60)), TokTag(U64Zero),
     TokBstr(<<1>>), TokBstrX, TokTstr(<<97>>), TokTstr(<<195>>), TokTstrX,
     TokArray(U64Zero), TokArray(U64FromByte(1)), TokArray(U64FromByte(2)),
     TokArrayX, TokMap(U64Zero), TokMap(U64FromByte(1)), TokMapX, TokBreak}

ParseInit ==
    /\ usize_bits \in {32, 64}
    /\ overflow_checks \in BOOLEAN
    /\ ScannerNew
    /\ ParsersNew
    /\ ConvNew

\* what a call of consume leaves behind: the parser and the value returned
LLCalled(c) == ll_inner' = c.inner /\ ll_ret' = c.ret

LRCalled(c) == lr_parser' = c.p /\ lr_ret' = c.ret

\* the driver hands the next token to the LL parser and to the LR parser;
\* a parser that has panicked takes no more calls
Feed(t) ==
    /\ Len(toks) < MaxTokens
    /\ ll_ret.r # "Panic" \/ lr_ret.r # "Panic"
    /\ toks' = Append(toks, t)
    /\ IF ll_ret.r # "Panic"
       THEN LLCalled(ll_Parser_consume(ll_inner, t))
       ELSE UNCHANGED <<ll_inner, ll_ret>>
    /\ IF lr_ret.r # "Panic"
       THEN LRCalled(lr_Parser_consume(lr_parser, t))
       ELSE UNCHANGED <<lr_parser, lr_ret>>
    /\ UNCHANGED <<build_vars, scan_vars, conv_vars, ll_inited>>

NextParse == \E t \in ParseTokens : Feed(t)

SpecParse == ParseInit /\ [][NextParse]_vars

(***************************************************************************)
(* LL parser alone: actions                                                *)
(***************************************************************************)
\* the tokens the driver makes items of
LLTokens ==
    {TokUint(U64FromByte(1)), TokTag(U64Zero),
     TokBstr(<<1>>), TokBstrX, TokTstr(<<97>>), TokTstrX,
     TokArray(U64FromByte(1)), TokArrayX, TokMap(U64FromByte(1)), TokMapX,
     TokBreak}

\* the driver hands the next token to the LL parser; the token that follows
\* a value is any of ParseTokens
LLFeed(t) ==
    /\ Len(toks) < MaxTokens
    /\ ll_ret.r # "Panic"
    /\ t \in LLTokens \/ ll_ret.r = "Some"
    /\ toks' = Append(toks, t)
    /\ LLCalled(ll_Parser_consume(ll_inner, t))
    /\ UNCHANGED <<ll_inited, lr_parser, lr_ret>>
    /\ UNCHANGED <<build_vars, scan_vars, conv_vars>>

NextLL == \E t \in ParseTokens : LLFeed(t)

SpecLL == ParseInit /\ [][NextLL]_vars

\* Parser::init: it takes &self, tells the visitor and returns Ok(None)
LLInit ==
    /\ ll_ret.r # "Panic"
    /\ ll_inited' = TRUE
    /\ UNCHANGED <<ll_inner, ll_ret, lr_parser, lr_ret, toks>>
    /\ UNCHANGED <<build_vars, scan_vars, conv_vars>>

\* a driver that calls init at a time of its choosing
NextLLInit == LLInit \/ \E t \in LLTokens : LLFeed(t)

SpecLLInit == ParseInit /\ [][NextLLInit]_vars

(***************************************************************************)
(* LL parser and long containers: actions                                  *)
(***************************************************************************)
\* the tokens of SpecLL and the shortest definite array and map whose
\* elements the context stack has no room for
LongTokens ==
    LLTokens \cup {TokArray(U64OfNat(ContextStack_cbor.upper - 1)),
                   TokMap(U64OfNat(ContextStack_cbor.upper \div 2))}

\* the driver hands the next token to the LL parser
LongFeed(t) ==
    /\ Len(toks) < MaxTokens
    /\ ll_ret.r # "Panic"
    /\ toks' = Append(toks, t)
    /\ LLCalled(ll_Parser_consume(ll_inner, t))
    /\ UNCHANGED <<ll_inited, lr_parser, lr_ret>>
    /\ UNCHANGED <<build_vars, scan_vars, conv_vars>>

NextLong == \E t \in LongTokens : LongFeed(t)

SpecLong == ParseInit /\ [][NextLong]_vars

(***************************************************************************)
(* LR parser alone: actions                                                *)
(***************************************************************************)
\* the tokens the driver makes arrays and maps of; %map(2^63) is the least
\* count whose double does not fit 64 bits
LRTokens ==
    {TokUint(U64FromByte(1)), TokTag(U64Zero), TokBstr(<<1>>),
     TokArray(U64Zero), TokArray(U64FromByte(1)), TokArray(U64FromByte(2)),
     TokMap(U64Zero), TokMap(U64FromByte(1)),
     TokMap(<<128, 0, 0, 0, 0, 0, 0, 0>>),
     TokArrayX, TokMapX, TokBreak}

\* the driver hands the next token to the LR parser
LRFeed(t) ==
    /\ Len(toks) < MaxTokens
    /\ lr_ret.r # "Panic"
    /\ toks' = Append(toks, t)
    /\ LRCalled(lr_Parser_consume(lr_parser, t))
    /\ UNCHANGED <<ll_inner, ll_ret, ll_inited>>
    /\ UNCHANGED <<build_vars, scan_vars, conv_vars>>

NextLR == \E t \in LRTokens : LRFeed(t)

SpecLR == ParseInit /\ [][NextLR]_vars

(***************************************************************************)
(* Parsers and long maps: actions                                          *)
(***************************************************************************)
\* %map(n) whose 2n values no stack has room for: n = 8192, 2^63, 2^63 + 1
LongMaps ==
    {TokMap(U64OfNat(ContextStack_cbor.upper \div 2)),
     TokMap(<<128, 0, 0, 0, 0, 0, 0, 0>>),
     TokMap(<<128, 0, 0, 0, 0, 0, 0, 1>>)}

\* the long maps and tokens that are values or begin one
MapTokens ==
    LongMaps \cup {TokUint(U64FromByte(1)), TokNint(U64Zero), TokTag(U64Zero),
                   TokArray(U64Zero), TokMap(U64FromByte(1))}

NextMaps == \E t \in MapTokens : Feed(t)

SpecMaps == ParseInit /\ [][NextMaps]_vars

(***************************************************************************)
(* Parsers near the stack bound: actions                                   *)
(***************************************************************************)
\* most tokens handed to the parsers after the long array has been opened
MaxDeep == 4

\* the longest definite array the LL parser opens at top level: its action
\* and its {n}<VALUE> must leave room for the %array expectation
DeepCount == ContextStack_cbor.upper - 2

\* %array(DeepCount) followed by all of its elements but the last
DeepTokens ==
    <<TokArray(U64OfNat(DeepCount))>>
        \o [i \in 1..(DeepCount - 1) |-> TokUint(U64Zero)]

DeepValues == [i \in 1..(DeepCount - 1) |-> Value_Uint(U64Zero)]

\* the LL parser after consume has been called with each of DeepTokens in
\* turn: it waits for the last element with the others on its value stack.
\* The LR parser has been made and is left alone.
ParsersDeep ==
    /\ toks = DeepTokens
    /\ ll_inner =
          [cxt_stack |-> [ContextStack_cbor EXCEPT !.inner =
                             <<Action("collect_array", U64OfNat(DeepCount)),
                               NonTerminalSymbol("Value")>>],
           val_stack |-> DeepValues]
    /\ ll_ret = OkNone
    /\ ll_inited = FALSE
    /\ lr_parser = lr_Parser_cbor
    /\ lr_ret = NoCall

DeepInit ==
    /\ usize_bits \in {32, 64}
    /\ overflow_checks \in BOOLEAN
    /\ ScannerNew
    /\ ParsersDeep
    /\ ConvNew

\* the tokens offered as the last element of the long array
DeepAlphabet ==
    {TokUint(U64Zero), TokArray(U64FromByte(5)), TokArrayX, TokBreak}

\* the driver hands the next token to the LL parser
DeepFeed(t) ==
    /\ Len(toks) < Len(DeepTokens) + MaxDeep
    /\ ll_ret.r # "Panic"
    /\ toks' = Append(toks, t)
    /\ LLCalled(ll_Parser_consume(ll_inner, t))
    /\ UNCHANGED <<ll_inited, lr_parser, lr_ret>>
    /\ UNCHANGED <<build_vars, scan_vars, conv_vars>>

NextDeep == \E t \in DeepAlphabet : DeepFeed(t)

SpecDeep == DeepInit /\ [][NextDeep]_vars

(***************************************************************************)
(* Value::try_from: actions                                                *)
(***************************************************************************)
\* the arguments and payloads of the tokens converted
ConvArgs ==
    {U64Zero, U64FromByte(1), U64FromByte(23), U64FromByte(255),
     <<0, 0, 0, 0, 0, 0, 1, 0>>, <<255, 255, 255, 255, 255, 255, 255, 255>>}

ConvSimples == {0, 20, 32, 255}

ConvPayloads == {<<>>, <<0>>, <<97>>, <<255>>, <<195, 169>>, <<97, 98, 99>>}

ConvTokens ==
    {TokUint(n) : n \in ConvArgs} \cup {TokNint(n) : n \in ConvArgs}
        \cup {TokArray(n) : n \in ConvArgs} \cup {TokMap(n) : n \in ConvArgs}
        \cup {TokTag(n) : n \in ConvArgs} \cup {TokFloat(n) : n \in ConvArgs}
        \cup {TokSimple(x) : x \in ConvSimples}
        \cup {TokBstr(bs) : bs \in ConvPayloads}
        \cup {TokTstr(bs) : bs \in ConvPayloads}
        \cup {TokBstrX, TokTstrX, TokArrayX, TokMapX, TokBreak}

ConvInit ==
    /\ usize_bits \in {32, 64}
    /\ overflow_checks = FALSE
    /\ ScannerNew
    /\ ParsersNew
    /\ ConvNew

\* a call of Value::try_from(tok)
TryFrom(tok) ==
    /\ token_in' = tok
    /\ converted' = Value_try_from(tok)
    /\ UNCHANGED <<build_vars, scan_vars, parse_vars, int_in, token_out>>

NextConv == \E tok \in ConvTokens : TryFrom(tok)

SpecConv == ConvInit /\ [][NextConv]_vars

(***************************************************************************)
(* Token::from(i64): actions                                               *)
(***************************************************************************)
\* the integers converted: i64::MIN, i64::MAX, -1, 0 and their neighbours
\* among them
I64Values ==
    {<<h, m, m, m, m, m, m, l>> :
        h \in {0, 127, 128, 255}, m \in {0, 255}, l \in {0, 1, 254, 255}}

FromInit ==
    /\ usize_bits \in {32, 64}
    /\ overflow_checks \in BOOLEAN
    /\ ScannerNew
    /\ ParsersNew
    /\ ConvNew

\* a call of Token::from(value)
FromI64(value) ==
    /\ int_in' = value
    /\ token_out' = Token_from_i64(value)
    /\ UNCHANGED <<build_vars, scan_vars, parse_vars, token_in, converted>>

NextFrom == \E value \in I64Values : FromI64(value)

SpecFrom == FromInit /\ [][NextFrom]_vars

(***************************************************************************)
(* LL parser: the outcome of consume, from the stacks do_consume leaves    *)
(***************************************************************************)
\* most values on the value stack do_consume leaves
MaxVals == 3

\* the values do_consume leaves on the value stack
OutcomeValues == {Value_Uint(U64FromByte(1)), Value_Array(<<>>), Value_Bstr(<<1>>)}

\* the context stacks do_consume leaves: nothing, the rest of an indefinite
\* array, the second element of an array of two
OutcomeContexts ==
    {<<>>, <<NonTerminalSymbol("ArrayXSeq")>>,
     <<Action("collect_array", U64FromByte(2)), NonTerminalSymbol("Value")>>}

\* self.inner when do_consume has returned Ok(()), taken stack by stack:
\* the lines of consume that follow do_consume read nothing else
OutcomeInit ==
    /\ usize_bits \in {32, 64}
    /\ overflow_checks \in BOOLEAN
    /\ ScannerNew
    /\ ConvNew
    /\ ll_inner \in
          [cxt_stack : {[ContextStack_cbor EXCEPT !.inner = c] :
                           c \in OutcomeContexts},
           val_stack : SeqsUpTo(OutcomeValues, MaxVals)]
    /\ ll_ret = NoCall
    /\ ll_inited = FALSE
    /\ lr_parser = lr_Parser_cbor
    /\ lr_ret = NoCall
    /\ toks = <<>>

\* the rest of Parser::consume once do_consume has returned Ok(())
OutcomeReturn ==
    /\ ll_ret = NoCall
    /\ LLCalled(ll_Parser_consumed(
                   LLResult(ll_inner.cxt_stack, ll_inner.val_stack, ROk)))
    /\ UNCHANGED <<ll_inited, lr_parser, lr_ret, toks>>
    /\ UNCHANGED <<build_vars, scan_vars, conv_vars>>

NextOutcome == OutcomeReturn

SpecOutcome == OutcomeInit /\ [][NextOutcome]_vars

(***************************************************************************)
(* Decoding a byte stream: scanner and parsers together                    *)
(***************************************************************************)
\* most elements of an array and most entries of a map that is encoded
MaxElems == 2

\* head and argument of a data item of major type major with argument n,
\* in the shortest form (RFC 8949, section 3)
EncodeArg(major, n) ==
    IF \A i \in 1..7 : n[i] = 0
    THEN IF n[8] < 24 THEN <<major * 32 + n[8]>>
         ELSE <<major * 32 + 24, n[8]>>
    ELSE IF \A i \in 1..6 : n[i] = 0
         THEN <<major * 32 + 25, n[7], n[8]>>
    ELSE IF \A i \in 1..4 : n[i] = 0
         THEN <<major * 32 + 26, n[5], n[6], n[7], n[8]>>
    ELSE <<major * 32 + 27>> \o n

\* the definite-length encoding of a value (RFC 8949, section 3); a float
\* is written in 64 bits
RECURSIVE Encode(_)
RECURSIVE EncodeAll(_)
RECURSIVE EncodeEntries(_)
Encode(v) ==
    CASE v.v = "Uint" -> EncodeArg(0, v.n)
      [] v.v = "Nint" -> EncodeArg(1, v.n)
      [] v.v = "Bstr" -> EncodeArg(2, U64OfNat(Len(v.bytes))) \o v.bytes
      [] v.v = "Tstr" -> EncodeArg(3, U64OfNat(Len(v.bytes))) \o v.bytes
      [] v.v = "Array" ->
            EncodeArg(4, U64OfNat(Len(v.elements))) \o EncodeAll(v.elements)
      [] v.v = "Map" ->
            EncodeArg(5, U64OfNat(Len(v.entries))) \o EncodeEntries(v.entries)
      [] v.v = "Tag" -> EncodeArg(6, v.tag) \o Encode(v.value)
      [] v.v = "Simple" -> EncodeArg(7, U64FromByte(v.s))
      [] v.v = "Float" -> <<251>> \o v.n

EncodeAll(vs) ==
    IF vs = <<>> THEN <<>> ELSE Encode(Head(vs)) \o EncodeAll(Tail(vs))

EncodeEntries(es) ==
    IF es = <<>> THEN <<>>
    ELSE Encode(Head(es)[1]) \o Encode(Head(es)[2]) \o EncodeEntries(Tail(es))

\* the values without a value inside
DecodeLeaves ==
    {Value_Uint(U64FromByte(1)), Value_Nint(<<0, 0, 0, 0, 0, 0, 1, 0>>),
     Value_Float(<<64, 9, 33, 251, 84, 68, 45, 24>>),
     Value_Bstr(<<1>>), Value_Tstr(<<97>>), Value_Simple(20)}

\* arrays, maps and tagged values of the values of S
DecodeOver(S) ==
    {Value_Array(xs) : xs \in SeqsUpTo(S, MaxElems)}
        \cup {Value_Map(<<>>)}
        \cup {Value_Map(<<<<k, x>>>>) : k \in {Value_Uint(U64FromByte(1)),
                                              Value_Tstr(<<97>>)}, x \in S}
        \cup {Value_Tag(t, x) : t \in {U64Zero, U64FromByte(255)}, x \in S}

\* containers nested once more
DecodeNested ==
    {Value_Array(<<Value_Array(<<x>>)>>) : x \in DecodeLeaves}
        \cup {Value_Tag(U64FromByte(1), Value_Map(<<<<x, Value_Array(<<>>)>>>>)) :
                 x \in DecodeLeaves}

DecodeValues == DecodeLeaves \cup DecodeOver(DecodeLeaves) \cup DecodeNested

\* a scanner, a parser of each kind and the encoding of a value to decode
DecodeInit ==
    /\ usize_bits \in {32, 64}
    /\ overflow_checks \in BOOLEAN
    /\ state = ScanStateDefault
    /\ ret = NoCall
    /\ op = "new"
    /\ byte = 0
    /\ pre_tag = "Head"
    /\ item = <<>>
    /\ fresh = TRUE
    /\ given \in {Encode(v) : v \in DecodeValues}
    /\ rest = given
    /\ ParsersNew
    /\ ConvNew

\* the parser has returned neither a value nor an error
LLRunning == ll_ret.r \in {"Init", "None"}

LRRunning == lr_ret.r \in {"Init", "None"}

\* one round of the loop of decode: the scanner consumes the next byte and
\* the token it completes, if any, goes to the parsers; decode is run once
\* with a parser of each kind, and returns at the first value or error
DecodeByte ==
    /\ rest # <<>>
    /\ ret.r \notin {"Err", "Panic"}
    /\ LLRunning \/ LRRunning
    /\ LET c == Scanner_consume(state, Head(rest))
       IN  /\ state' = c.state
           /\ ret' = c.ret
           /\ fresh' = (c.ret.r # "None")
           /\ IF c.ret.r = "Some"
              THEN /\ toks' = Append(toks, c.ret.token)
                   /\ IF LLRunning
                      THEN LLCalled(ll_Parser_consume(ll_inner, c.ret.token))
                      ELSE UNCHANGED <<ll_inner, ll_ret>>
                   /\ IF LRRunning
                      THEN LRCalled(lr_Parser_consume(lr_parser, c.ret.token))
                      ELSE UNCHANGED <<lr_parser, lr_ret>>
              ELSE UNCHANGED <<ll_inner, ll_ret, lr_parser, lr_ret, toks>>
    /\ op' = "consume"
    /\ byte' = Head(rest)
    /\ pre_tag' = state.tag
    /\ item' = ItemNext(item, fresh, Head(rest))
    /\ rest' = Tail(rest)
    /\ UNCHANGED <<given, ll_inited>>
    /\ UNCHANGED <<build_vars, conv_vars>>

NextDecode == DecodeByte

SpecDecode == DecodeInit /\ [][NextDecode]_vars

(***************************************************************************)
(* Parsers and long indefinite-length arrays: actions                      *)
(***************************************************************************)
\* most elements of a flat indefinite-length array the LR parser holds: one
\* state each, above State::Init and the state of %array(*)
FlatCount == StateStack_cbor.upper - 2

\* %array(*) followed by k elements
FlatTokens(k) == <<TokArrayX>> \o [i \in 1..k |-> TokUint(U64FromByte(1))]

FlatValues(k) == [i \in 1..k |-> Value_Uint(U64FromByte(1))]

\* both parsers after consume has been called with each of FlatTokens(k) in
\* turn, k <= FlatCount: the LL parser has merged the elements into the
\* array on its value stack, the LR parser has shifted a state and a value
\* for each of them
ParsersFlat(k) ==
    /\ toks = FlatTokens(k)
    /\ ll_inner =
          [cxt_stack |-> [ContextStack_cbor EXCEPT !.inner =
                             <<NonTerminalSymbol("ArrayXSeq")>>],
           val_stack |-> <<Value_Array(FlatValues(k))>>]
    /\ ll_ret = OkNone
    /\ ll_inited = FALSE
    /\ lr_parser =
          [states |-> [StateStack_cbor EXCEPT !.inner =
                          <<State("Init"), State("ArrayXSeqOpen")>>
                              \o [i \in 1..k |-> State("ArrayXSeqValue")]],
           values |-> [ValueStack_default EXCEPT !.inner = FlatValues(k)]]
    /\ lr_ret = OkNone

\* new parsers, or parsers that have taken a flat array up to the bound
FlatInit ==
    /\ usize_bits \in {32, 64}
    /\ overflow_checks \in BOOLEAN
    /\ ScannerNew
    /\ ParsersNew \/ ParsersFlat(FlatCount)
    /\ ConvNew

\* the tokens offered: elements, chunks, openers and %break
FlatAlphabet ==
    {TokUint(U64FromByte(1)), TokTag(U64Zero), TokArray(U64FromByte(2)),
     TokArrayX, TokMapX, TokBstrX, TokBstr(<<1>>), TokBreak}

\* the tokens already taken when the driver starts
FlatBase == IF Len(toks) > FlatCount THEN FlatCount + 1 ELSE 0

\* the driver hands the next token to both parsers, as long as the LL parser
\* asks for more and the LR parser has failed for want of stack at most; the
\* long array stays flat
FlatFeed(t) ==
    /\ Len(toks) < FlatBase + MaxDeep
    /\ FlatBase > 0 => t \in {TokUint(U64FromByte(1)), TokBreak}
    /\ LLRunning
    /\ LRRunning \/ lr_ret = Err(Error_InsufficientStackSize)
    /\ toks' = Append(toks, t)
    /\ LLCalled(ll_Parser_consume(ll_inner, t))
    /\ LRCalled(lr_Parser_consume(lr_parser, t))
    /\ UNCHANGED <<build_vars, scan_vars, conv_vars, ll_inited>>

NextFlat == \E t \in FlatAlphabet : FlatFeed(t)

SpecFlat == FlatInit /\ [][NextFlat]_vars

(***************************************************************************)
(* Claims about the scanner                                                *)
(***************************************************************************)
\* the 8 bytes of the big-endian unsigned integer written as the bytes bs
U64FromBE(bs) == [i \in 1..8 |-> IF i + Len(bs) > 8 THEN bs[i + Len(bs) - 8] ELSE 0]

MajorOf(b) == b \div 32
LowOf(b) == b % 32

\* the kind a head byte names, by its major type
KindOfHead(b) ==
    CASE MajorOf(b) = 0 -> "Uint"
      [] MajorOf(b) = 1 -> "Nint"
      [] MajorOf(b) = 2 -> "Bstr"
      [] MajorOf(b) = 3 -> "Tstr"
      [] MajorOf(b) = 4 -> "Array"
      [] MajorOf(b) = 5 -> "Map"
      [] MajorOf(b) = 6 -> "Tag"
      [] MajorOf(b) = 7 -> IF LowOf(b) = 24 THEN "Simple" ELSE "Float"

\* number of argument bytes a head with low bits 24..27 announces
ArgBytesOfHead(b) ==
    CASE LowOf(b) = 24 -> 1
      [] LowOf(b) = 25 -> 2
      [] LowOf(b) = 26 -> 4
      [] LowOf(b) = 27 -> 8
      [] OTHER -> 0

\* the token of a kind that carries a 64-bit argument (Simple: its low byte)
ArgToken(kind, n) ==
    CASE kind = "Uint" -> TokUint(n)
      [] kind = "Nint" -> TokNint(n)
      [] kind = "Array" -> TokArray(n)
      [] kind = "Map" -> TokMap(n)
      [] kind = "Tag" -> TokTag(n)
      [] kind = "Float" -> TokFloat(n)
      [] kind = "Simple" -> TokSimple(n[8])

StrToken(kind, bs) == IF kind = "Bstr" THEN TokBstr(bs) ELSE TokTstr(bs)

\* what the head table of the specification says of head byte b
HeadTable(b, r, st) ==
    /\ b \in 0..23 => r = OkSome(TokUint(U64FromByte(b)))
    /\ b \in 32..55 => r = OkSome(TokNint(U64FromByte(b - 32)))
    /\ b = 64 => r = OkSome(TokBstr(<<>>))
    /\ b = 96 => r = OkSome(TokTstr(<<>>))
    /\ b \in 128..151 => r = OkSome(TokArray(U64FromByte(b - 128)))
    /\ b \in 160..183 => r = OkSome(TokMap(U64FromByte(b - 160)))
    /\ b \in 192..215 => r = OkSome(TokTag(U64FromByte(b - 192)))
    /\ b \in 224..247 => r = OkSome(TokSimple(b - 224))
    /\ b = 95 => r = OkSome(TokBstrX)
    /\ b = 127 => r = OkSome(TokTstrX)
    /\ b = 159 => r = OkSome(TokArrayX)
    /\ b = 191 => r = OkSome(TokMapX)
    /\ b = 255 => r = OkSome(TokBreak)
    /\ b \in (65..87) \cup (97..119) =>
          /\ r = OkNone
          /\ st.tag = "Pay"
          /\ st.kind = KindOfHead(b)
          /\ st.pending = U64FromByte(LowOf(b))
    /\ LowOf(b) \in 24..27 =>
          /\ r = OkNone
          /\ st.tag = "Arg"
          /\ st.kind = KindOfHead(b)
          /\ st.pending = ArgBytesOfHead(b)

\* C3: in state Head, consume(b) answers as the head table says: short
\* arguments and the indefinite openers and break give their token on that
\* byte, short string lengths enter Pay with pending = b & 0x1f, low bits
\* 24..27 enter Arg with 1/2/4/8 pending bytes.
C3_HeadTable ==
    (op = "consume" /\ pre_tag = "Head") => HeadTable(byte, ret, state)

C3_Witness ==
    /\ op = "consume" /\ pre_tag = "Head"
    /\ byte = 250 /\ ret = OkNone
    /\ state.tag = "Arg" /\ state.kind = "Float" /\ state.pending = 4

BadHeads ==
    (28..31) \cup (60..63) \cup (92..94) \cup (124..126) \cup (156..158)
        \cup (188..190) \cup (220..223) \cup (252..254)

IsUnexpectedHead(r) == r.r = "Err" /\ r.err.e = "UnexpectedHead"

\* C4: consume returns Err(UnexpectedHead(b)) exactly when the scanner is in
\* Head and b is one of the listed heads; every other call returns Ok(None)
\* or Ok(Some(token)), or Excessive for a declared string length.
C4_ErrorsOnlyForBadHeads ==
    op = "consume" =>
        /\ IsUnexpectedHead(ret) <=> (pre_tag = "Head" /\ byte \in BadHeads)
        /\ IsUnexpectedHead(ret) => ret.err.head = byte
        /\ ~IsUnexpectedHead(ret) =>
              \/ ret.r \in {"None", "Some"}
              \/ /\ ret.r = "Err" /\ ret.err.e = "Excessive"
                 /\ KindOfHead(item[1]) \in {"Bstr", "Tstr"}

\* the part of C4 that the scanner keeps: UnexpectedHead exactly for the
\* listed heads in state Head
C4_UnexpectedHeadExactly ==
    op = "consume" =>
        /\ IsUnexpectedHead(ret) <=> (pre_tag = "Head" /\ byte \in BadHeads)
        /\ IsUnexpectedHead(ret) => ret.err.head = byte

\* C5: after a head announcing k argument bytes for Uint, Nint, Array, Map,
\* Tag, Float or Simple, the scanner answers Ok(None) to the head and to the
\* first k-1 argument bytes, and to the k-th the token of the kind whose
\* payload is the big-endian integer of exactly those k bytes.
C5_Argument ==
    (op = "consume" /\ item # <<>> /\ LowOf(item[1]) \in 24..27
        /\ KindOfHead(item[1]) \notin {"Bstr", "Tstr"}) =>
        LET k == ArgBytesOfHead(item[1])
            args == SubSeq(item, 2, Len(item))
        IN  /\ Len(item) <= 1 + k
            /\ Len(item) < 1 + k => ret = OkNone
            /\ Len(item) = 1 + k =>
                  ret = OkSome(ArgToken(KindOfHead(item[1]), U64FromBE(args)))

C5_Witness ==
    /\ op = "consume" /\ Len(item) = 9 /\ item[1] = 27
    /\ item[2] = 255 /\ item[9] = 2
    /\ ret.r = "Some" /\ ret.token.kind = "Uint"

\* the head bytes of definite-length strings
StrHeads == (64..91) \cup (96..123)

\* bytes of head and argument of a definite-length string
StrHeaderLen(b) == 1 + ArgBytesOfHead(b)

\* the declared length, once the header hdr is complete
StrDeclared(hdr) ==
    IF LowOf(hdr[1]) < 24 THEN U64FromByte(LowOf(hdr[1]))
    ELSE U64FromBE(SubSeq(hdr, 2, Len(hdr)))

\* C6: a definite-length string of declared length L >= 1 gives no token for
\* its first L-1 payload bytes and on the L-th gives Bstr/Tstr holding
\* exactly those L bytes in input order; with L = 0 the empty string is
\* given on the last byte of head and argument and Pay is not entered.
C6_Payload ==
    (op = "consume" /\ item # <<>> /\ item[1] \in StrHeads) =>
        LET h == StrHeaderLen(item[1])
            kind == KindOfHead(item[1])
            L == StrDeclared(SubSeq(item, 1, h))
            payload == SubSeq(item, h + 1, Len(item))
        IN  /\ Len(item) < h => ret = OkNone
            /\ (Len(item) = h /\ L = U64Zero) =>
                  ret = OkSome(StrToken(kind, <<>>)) /\ state.tag # "Pay"
            /\ (Len(item) = h /\ L # U64Zero) => ret.r # "Some"
            /\ Len(item) > h =>
                  IF U64FromBE(<<Len(payload)>>) = L
                  THEN ret = OkSome(StrToken(kind, payload))
                  ELSE ret = OkNone

C6_Witness ==
    /\ op = "consume" /\ Len(item) = 4 /\ item[1] = 120 /\ item[2] = 2
    /\ item[3] # item[4]
    /\ ret = OkSome(TokTstr(<<item[3], item[4]>>))

\* C7: a call returns at most one token, and whenever a token is returned
\* the scanner is in Head, so that the next byte is decoded as a head byte
\* whatever the token was.
C7_HeadAfterToken ==
    /\ [](ret.r = "Some" => state = ScanStateHead)
    /\ [][(ret.r = "Some" /\ op' = "consume") =>
            (pre_tag' = "Head"
             /\ [state |-> state', ret |-> ret'] =
                    Scanner_consume(ScanStateHead, byte'))]_vars

C7_Witness ==
    /\ op = "consume" /\ pre_tag = "Pay"
    /\ ret.r = "Some" /\ ret.token.kind = "Bstr" /\ Len(ret.token.bytes) = 3
    /\ state = ScanStateHead

\* the outcome of feeding bs, byte by byte, to a scanner in state st
RECURSIVE FeedAll(_, _)
FeedAll(st, bs) ==
    IF Len(bs) = 1 THEN Scanner_consume(st, bs[1])
    ELSE FeedAll(Scanner_consume(st, bs[1]).state, Tail(bs))

\* no proper prefix of bs completes a token or fails in a fresh scanner
RECURSIVE NoEarlyResult(_, _)
NoEarlyResult(st, bs) ==
    Len(bs) <= 1 \/
        LET c == Scanner_consume(st, bs[1])
        IN  c.ret = OkNone /\ NoEarlyResult(c.state, Tail(bs))

\* C8: consume_until_complete takes the bytes in order and stops right after
\* the byte that completes the first token, leaving the later bytes in the
\* iterator; it returns Ok(None) only when the iterator is exhausted, and
\* then keeps the partial state, so that the token completed by a later call
\* is the one an uninterrupted feed of the same bytes gives.
C8_UntilComplete ==
    op = "iter" =>
        LET used == SubSeq(given, 1, Len(given) - Len(rest))
        IN  /\ given = used \o rest
            /\ ret = OkNone => rest = <<>>
            /\ (used # <<>> /\ ret.r \in {"None", "Some"}) =>
                  /\ NoEarlyResult(ScanStateDefault, item)
                  /\ FeedAll(ScanStateDefault, item) =
                        [state |-> state, ret |-> ret]

C8_Witness ==
    /\ op = "iter" /\ ret.r = "Some" /\ ret.token.kind = "Bstr"
    /\ rest # <<>>
    /\ Len(item) > Len(given) - Len(rest)
    /\ Len(given) - Len(rest) > 0

\* C9: reset puts the scanner in Head from any state, dropping the partial
\* token; the next byte is decoded as a head byte, as by a new scanner.
C9_Reset ==
    /\ [](op = "reset" => state = ScanStateHead)
    /\ [][(op = "reset" /\ op' = "consume") =>
            [state |-> state', ret |-> ret'] =
                Scanner_consume(ScanStateDefault, byte')]_vars

C9_Witness ==
    /\ op = "reset" /\ pre_tag = "Pay" /\ state = ScanStateHead

(***************************************************************************)
(* Claims about the parsers                                                *)
(***************************************************************************)
\* The grammar of the specification, read off a token sequence: the value
\* the first item of ts encodes and the tokens after it ("done"), or that
\* ts ends inside the item ("more"), or that ts is no item ("bad").
RefDone(v, ts) == [st |-> "done", v |-> v, rest |-> ts]
RefMore == [st |-> "more"]
RefBad == [st |-> "bad"]

RECURSIVE RefValue(_), RefValues(_, _, _), RefArrayX(_, _), RefMapX(_, _),
          RefStrX(_, _, _)
RefValue(ts) ==
    IF ts = <<>> THEN RefMore
    ELSE LET t == Head(ts)
             k == t.kind
         IN  IF k = "Uint" THEN RefDone(Value_Uint(t.n), Tail(ts))
             ELSE IF k = "Nint" THEN RefDone(Value_Nint(t.n), Tail(ts))
             ELSE IF k = "Float" THEN RefDone(Value_Float(t.n), Tail(ts))
             ELSE IF k = "Simple" THEN RefDone(Value_Simple(t.s), Tail(ts))
             ELSE IF k = "Bstr" THEN RefDone(Value_Bstr(t.bytes), Tail(ts))
             ELSE IF k = "Tstr"
                  THEN IF Utf8Valid(t.bytes)
                       THEN RefDone(Value_Tstr(t.bytes), Tail(ts))
                       ELSE RefBad
             ELSE IF k = "BstrX" THEN RefStrX("Bstr", Tail(ts), <<>>)
             ELSE IF k = "TstrX" THEN RefStrX("Tstr", Tail(ts), <<>>)
             ELSE IF k = "Tag"
                  THEN LET r == RefValue(Tail(ts))
                       IN  IF r.st = "done"
                           THEN RefDone(Value_Tag(t.n, r.v), r.rest)
                           ELSE r
             ELSE IF k = "Array"
                  THEN IF ~U64Small(t.n) THEN RefBad
                       ELSE LET r == RefValues(Tail(ts), U64Nat(t.n), <<>>)
                            IN  IF r.st = "done"
                                THEN RefDone(Value_Array(r.v), r.rest)
                                ELSE r
             ELSE IF k = "Map"
                  THEN IF ~U64Small(t.n) THEN RefBad
                       ELSE LET r == RefValues(Tail(ts), 2 * U64Nat(t.n), <<>>)
                            IN  IF r.st = "done"
                                THEN RefDone(Value_Map(
                                        [i \in 1..U64Nat(t.n) |->
                                            <<r.v[2 * i - 1], r.v[2 * i]>>]),
                                        r.rest)
                                ELSE r
             ELSE IF k = "ArrayX" THEN RefArrayX(Tail(ts), <<>>)
             ELSE IF k = "MapX" THEN RefMapX(Tail(ts), <<>>)
             ELSE RefBad

\* n values in a row, after those of acc
RefValues(ts, n, acc) ==
    IF n = 0 THEN RefDone(acc, ts)
    ELSE LET r == RefValue(ts)
         IN  IF r.st = "done" THEN RefValues(r.rest, n - 1, Append(acc, r.v))
             ELSE r

\* values up to the closing %break
RefArrayX(ts, acc) ==
    IF ts = <<>> THEN RefMore
    ELSE IF Head(ts).kind = "Break" THEN RefDone(Value_Array(acc), Tail(ts))
    ELSE LET r == RefValue(ts)
         IN  IF r.st = "done" THEN RefArrayX(r.rest, Append(acc, r.v))
             ELSE r

\* pairs of values up to the closing %break
RefMapX(ts, acc) ==
    IF ts = <<>> THEN RefMore
    ELSE IF Head(ts).kind = "Break" THEN RefDone(Value_Map(acc), Tail(ts))
    ELSE LET l == RefValue(ts)
         IN  IF l.st # "done" THEN l
             ELSE LET r == RefValue(l.rest)
                  IN  IF r.st = "done"
                      THEN RefMapX(r.rest, Append(acc, <<l.v, r.v>>))
                      ELSE r

\* chunks of one string kind, definite or themselves indefinite, up to the
\* closing %break
RefStrX(kind, ts, acc) ==
    IF ts = <<>> THEN RefMore
    ELSE IF Head(ts).kind = "Break"
         THEN RefDone(IF kind = "Bstr" THEN Value_Bstr(acc) ELSE Value_Tstr(acc),
                      Tail(ts))
    ELSE IF Head(ts).kind = kind
         THEN IF kind = "Tstr" /\ ~Utf8Valid(Head(ts).bytes) THEN RefBad
              ELSE RefStrX(kind, Tail(ts), acc \o Head(ts).bytes)
    ELSE IF (kind = "Bstr" /\ Head(ts).kind = "BstrX")
            \/ (kind = "Tstr" /\ Head(ts).kind = "TstrX")
         THEN LET r == RefStrX(kind, Tail(ts), <<>>)
              IN  IF r.st = "done" THEN RefStrX(kind, r.rest, acc \o r.v.bytes)
                  ELSE r
    ELSE RefBad

\* ts is exactly one well-formed item
WellFormed(ts) == RefValue(ts).st = "done" /\ RefValue(ts).rest = <<>>

\* ts is the beginning of a well-formed item, and not yet all of it
ProperPrefix(ts) == ts # <<>> /\ RefValue(ts).st = "more"

\* C1: for every well-formed token sequence encoding one item, fed in order
\* to an LL parser and to an LR parser from cbor(), both parsers return
\* Ok(Some(v)) with the same value v.
C1_ParsersAgree ==
    WellFormed(toks) => (ll_ret.r = "Some" /\ lr_ret.r = "Some" /\ ll_ret = lr_ret)

\* C2: for every well-formed token sequence encoding one item, each parser
\* returns Ok(None) for every token before the last and Ok(Some(value)) on
\* the call that consumes the last token.
C2_ValueOnLastToken ==
    /\ ProperPrefix(toks) => (ll_ret = OkNone /\ lr_ret = OkNone)
    /\ WellFormed(toks) => (ll_ret.r = "Some" /\ lr_ret.r = "Some")

\* C10: %array(n) followed by the tokens of exactly n values makes each
\* parser produce Value::Array of length n whose elements are the n values
\* in input order; %array(0) alone yields Array([]).
C10_DefiniteArray ==
    (toks # <<>> /\ toks[1].kind = "Array" /\ WellFormed(toks)) =>
        LET v == RefValue(toks).v
        IN  /\ v.v = "Array"
            /\ Len(v.elements) = U64Nat(toks[1].n)
            /\ ll_ret = OkValue(v)
            /\ lr_ret = OkValue(v)

\* some token of ts is of one of the kinds
HasKind(ts, kinds) == \E i \in 1..Len(ts) : ts[i].kind \in kinds

\* both parsers answered the last token with Ok(Some(v))
BothReturn(v) == ll_ret = OkValue(v) /\ lr_ret = OkValue(v)

StringKinds == {"Bstr", "BstrX", "Tstr", "TstrX"}

\* C11: %map(n) followed by the tokens of exactly 2n values makes each parser
\* produce Value::Map of n pairs, pair i being (value 2i-1, value 2i) of the
\* input; %map(0) alone yields Map([]).
C11_DefiniteMap ==
    (toks # <<>> /\ toks[1].kind = "Map" /\ WellFormed(toks)) =>
        LET v == RefValue(toks).v
        IN  /\ v.v = "Map"
            /\ Len(v.entries) = U64Nat(toks[1].n)
            /\ BothReturn(v)

\* the bytes of the definite chunks ts[i..Len(ts)-1], one after the other
RECURSIVE ChunkBytes(_, _)
ChunkBytes(ts, i) ==
    IF i >= Len(ts) THEN <<>> ELSE ts[i].bytes \o ChunkBytes(ts, i + 1)

\* ts is an opener, definite chunks of its kind, and %break
ChunkedString(ts, opener, chunk) ==
    /\ Len(ts) >= 2
    /\ ts[1].kind = opener
    /\ ts[Len(ts)].kind = "Break"
    /\ \A i \in 2..(Len(ts) - 1) : ts[i].kind = chunk

\* C12: %bstrx, chunks %bstr(c1) .. %bstr(cm), %break makes each parser
\* produce one Bstr of c1 ++ .. ++ cm (empty for m = 0), and likewise
\* %tstrx, %tstr chunks, %break one Tstr; the value depends on the
\* concatenation only, not on where the chunks are cut.
C12_ChunkedStrings ==
    /\ ChunkedString(toks, "BstrX", "Bstr") =>
            BothReturn(Value_Bstr(ChunkBytes(toks, 2)))
    /\ ChunkedString(toks, "TstrX", "Tstr") =>
            BothReturn(Value_Tstr(ChunkBytes(toks, 2)))

\* C13: an indefinite string that holds an indefinite string of its kind as
\* a chunk is parsed by both parsers to one string of all definite chunks in
\* input order.
C13_NestedIndefiniteStrings ==
    (WellFormed(toks) /\ toks[1].kind \in {"BstrX", "TstrX"}
        /\ \E i \in 2..Len(toks) : toks[i].kind = toks[1].kind) =>
        BothReturn(RefValue(toks).v)

\* C14: %arrayx, m values, %break makes each parser produce the Array of
\* exactly the m values in input order, nested indefinite arrays included.
C14_IndefiniteArray ==
    (toks # <<>> /\ toks[1].kind = "ArrayX" /\ WellFormed(toks)) =>
        (RefValue(toks).v.v = "Array" /\ BothReturn(RefValue(toks).v))

\* C15: %mapx, 2m values, %break makes each parser produce the Map of
\* exactly the m pairs in input order, equal keys kept apart.
C15_IndefiniteMap ==
    (toks # <<>> /\ toks[1].kind = "MapX" /\ WellFormed(toks)) =>
        (RefValue(toks).v.v = "Map" /\ BothReturn(RefValue(toks).v))

\* C16: %tag(t1) .. %tag(tk) followed by the tokens of a value v makes each
\* parser produce Tag(t1, Tag(t2, .. Tag(tk, v))); the answer is Ok(None)
\* after each tag token and until v is complete.
C16_NestedTags ==
    (toks # <<>> /\ toks[1].kind = "Tag") =>
        /\ ProperPrefix(toks) => (ll_ret = OkNone /\ lr_ret = OkNone)
        /\ WellFormed(toks) =>
              (RefValue(toks).v.v = "Tag" /\ BothReturn(RefValue(toks).v))

\* C17: a byte or text string, definite or indefinite, is accepted as the
\* content of a tag, as an element of an array and as a key or value of a
\* map: both parsers return the enclosing value.
C17_StringsInsideContainers ==
    (WellFormed(toks)
        /\ toks[1].kind \in {"Tag", "Array", "ArrayX", "Map", "MapX"}
        /\ HasKind(toks, StringKinds) /\ ~HasKind(toks, {"Float"})) =>
        BothReturn(RefValue(toks).v)

\* C18: %float(n) where a value is expected, at top level or nested, is
\* accepted by both parsers and yields Float(n) with n unchanged.
C18_FloatAccepted ==
    (WellFormed(toks) /\ HasKind(toks, {"Float"})
        /\ ~HasKind(toks, StringKinds)) =>
        /\ BothReturn(RefValue(toks).v)
        /\ Len(toks) = 1 => RefValue(toks).v = Value_Float(toks[1].n)

\* the value the specification gives a token that has one of its own
ConvExpected(tok) ==
    IF tok.kind = "Uint" THEN Value_Uint(tok.n)
    ELSE IF tok.kind = "Nint" THEN Value_Nint(tok.n)
    ELSE IF tok.kind = "Simple" THEN Value_Simple(tok.s)
    ELSE IF tok.kind = "Float" THEN Value_Float(tok.n)
    ELSE IF tok.kind = "Bstr" THEN Value_Bstr(tok.bytes)
    ELSE IF tok.kind = "Tstr" THEN Value_Tstr(tok.bytes)
    ELSE IF tok.kind = "BstrX" THEN Value_Bstr(<<>>)
    ELSE IF tok.kind = "TstrX" THEN Value_Tstr(<<>>)
    ELSE IF tok.kind = "ArrayX" THEN Value_Array(<<>>)
    ELSE Value_Map(<<>>)

\* C19: Value::try_from(token) is Err for Array(n), Map(n), Tag(t) and
\* Break, and Ok for every other token: Uint, Nint, Simple, Float, Bstr and
\* Tstr keep their payload, BstrX, TstrX, ArrayX and MapX give the empty
\* Bstr, Tstr, Array and Map.
C19_TryFrom ==
    converted # NoCall =>
        IF token_in.kind \in {"Array", "Map", "Tag", "Break"}
        THEN converted.t = "Err"
        ELSE converted = [t |-> "Ok", value |-> ConvExpected(token_in)]

\* ts is made of openers of indefinite containers, each one placed where
\* the grammar lets it open: a string inside a string of its kind, anything
\* inside an array or in the key position of a map
Openers(ts) ==
    /\ ts # <<>>
    /\ \A i \in 1..Len(ts) : ts[i].kind \in {"ArrayX", "MapX", "BstrX", "TstrX"}
    /\ \A i \in 2..Len(ts) :
          ts[i - 1].kind \in {"BstrX", "TstrX"} => ts[i].kind = ts[i - 1].kind

\* C20: consecutive openers of indefinite containers, one more than the
\* stack bound, end in Err(InsufficientStackSize) and never in a value: up
\* to that error every opener leaves both parsers running, without a value.
C20_StackBound ==
    Openers(toks) =>
        /\ ll_ret.r \notin {"Some", "Panic"}
        /\ lr_ret.r \notin {"Some", "Panic"}
        /\ \A q \in {ll_ret, lr_ret} :
              q.r = "Err" => q.err = Error_InsufficientStackSize

\* C21: in every state of a parser made by cbor(), the context stack and the
\* value stack of the LL parser and the state stack and the value stack of
\* the LR parser each hold at most the bound of 16,384 entries.
C21_StacksBounded ==
    /\ Len(ll_inner.cxt_stack.inner) <= ll_inner.cxt_stack.upper
    /\ Len(ll_inner.val_stack) <= ll_inner.cxt_stack.upper
    /\ Len(lr_parser.states.inner) <= lr_parser.states.upper
    /\ Len(lr_parser.values.inner) <= lr_parser.values.upper

\* C22: once the LL parser has returned Ok(Some(value)), every further
\* consume returns Err(TrailingInput), whatever the token, and leaves the
\* context stack and the value stack empty as they were.
C22_TrailingInput ==
    [][(ll_ret.r = "Some" \/ ll_ret = Err(Error_TrailingInput))
       /\ toks' # toks
       => /\ ll_inner.cxt_stack.inner = <<>>
          /\ ll_inner.val_stack = <<>>
          /\ ll_ret' = Err(Error_TrailingInput)
          /\ ll_inner' = ll_inner]_vars

\* a %float and then a %break were offered after the value and both were
\* turned down
C22_Witness ==
    /\ Len(toks) >= 3
    /\ toks[Len(toks) - 1].kind = "Float"
    /\ toks[Len(toks)].kind = "Break"
    /\ ll_ret = Err(Error_TrailingInput)
    /\ ll_inner.cxt_stack.inner = <<>>
    /\ ll_inner.val_stack = <<>>

\* C23: once the LR parser has returned Ok(Some(value)), a further consume
\* returns Err(TrailingInput), as it does in the LL parser.
C23_LRTrailingInput ==
    [][lr_ret.r = "Some" /\ toks' # toks
       => lr_ret' = Err(Error_TrailingInput)]_vars

\* C24: a freshly made LL parser is uninitialised: every consume made before
\* init() has been called returns Err(Invalid).
C24_InvalidBeforeInit ==
    ~ll_inited /\ toks # <<>> => ll_ret = Err(Error_Invalid)

\* the token is one that no production admits where the LL parser stands:
\* %break where a value is expected, or anything but a chunk, an opener or
\* %break inside an indefinite byte string or text string
LLInadmissible(inner, t) ==
    /\ inner.cxt_stack.inner # <<>>
    /\ Top(inner.cxt_stack.inner).c = "NonTerminalSymbol"
    /\ \/ /\ Top(inner.cxt_stack.inner).nt = "Value"
          /\ t.kind = "Break"
       \/ /\ Top(inner.cxt_stack.inner).nt = "BstrXSeq"
          /\ t.kind \notin {"Bstr", "BstrX", "Break"}
       \/ /\ Top(inner.cxt_stack.inner).nt = "TstrXSeq"
          /\ t.kind \notin {"Tstr", "TstrX", "Break"}

\* C25: offered a token that no production admits in the current context,
\* the LL parser returns Err(UnexpectedT(expected, token)) with a non-empty
\* list of expected kinds and leaves the context stack and the value stack
\* exactly as they were, so that the parse goes on with the next token.
C25_UnexpectedT ==
    [][toks' # toks /\ LLInadmissible(ll_inner, toks'[Len(toks')])
       => /\ ll_ret'.r = "Err"
          /\ ll_ret'.err.e = "UnexpectedT"
          /\ ll_ret'.err.expected # <<>>
          /\ ll_ret'.err.input = toks'[Len(toks')]
          /\ ll_inner' = ll_inner]_vars

\* %break was offered as the value of the first entry of an indefinite map
\* and turned down with the thirteen kinds a value begins with
C25_Witness ==
    /\ Len(toks) = 3
    /\ toks[1].kind = "MapX"
    /\ toks[2].kind = "Uint"
    /\ toks[3].kind = "Break"
    /\ ll_ret.r = "Err"
    /\ ll_ret.err.e = "UnexpectedT"
    /\ Len(ll_ret.err.expected) = 13

\* the token is not admissible in the state on top of the LR state stack:
\* %break where a value must begin, or anything but a chunk or %break inside
\* an indefinite byte string or text string
LRInadmissible(p, t) ==
    /\ p.states.inner # <<>>
    /\ \/ /\ t.kind = "Break"
          /\ \/ TopState(p).s \in {"Init", "TagNumber", "MapXSeqValue1"}
             \/ /\ TopState(p).s \in {"ValueArray", "ValueMap"}
                /\ U64Lt(TopState(p).k, TopState(p).n)
       \/ /\ TopState(p).s \in {"BstrXSeqOpen", "BstrXSeqBstr"}
          /\ t.kind \notin {"Bstr", "Break"}
       \/ /\ TopState(p).s \in {"TstrXSeqOpen", "TstrXSeqTstr"}
          /\ t.kind \notin {"Tstr", "Break"}

\* C26: offered a token that is not admissible in its current state, the LR
\* parser returns Err(UnexpectedT(expected, token)) with a non-empty list of
\* expected kinds.
C26_LRUnexpectedT ==
    [][toks' # toks /\ lr_ret.r # "Panic"
       /\ LRInadmissible(lr_parser, toks'[Len(toks')])
       => /\ lr_ret'.r = "Err"
          /\ lr_ret'.err.e = "UnexpectedT"
          /\ lr_ret'.err.expected # <<>>
          /\ lr_ret'.err.input = toks'[Len(toks')]]_vars

\* C27: whatever tokens are offered, every consume of either parser returns
\* Ok(None), Ok(Some(value)) or Err(error); no call aborts.
C27_NoAbort == ll_ret.r # "Panic" /\ lr_ret.r # "Panic"

\* C28: text is not validated when parsed: an indefinite text string with a
\* chunk that is not valid UTF-8 on its own is parsed by each parser to
\* Value::Tstr of the concatenated bytes, without error or abort.
C28_NoUtf8Validation ==
    /\ ChunkedString(toks, "TstrX", "Tstr")
    /\ \E i \in 2..(Len(toks) - 1) : ~Utf8Valid(toks[i].bytes)
    => /\ ll_ret = OkValue(Value_Tstr(ChunkBytes(toks, 2)))
       /\ lr_ret = OkValue(Value_Tstr(ChunkBytes(toks, 2)))

\* a declared length above usize::MAX of the build target
ExceedsUsizeMax(count) == usize_bits = 32 /\ \E i \in 1..4 : count[i] # 0

IsExcessive(r) == r.r = "Err" /\ r.err.e = "Excessive"

\* the last byte consumed completed the head and argument of a definite
\* string whose declared length is above usize::MAX
DeclaredTooLong ==
    /\ item # <<>>
    /\ item[1] \in StrHeads
    /\ Len(item) = StrHeaderLen(item[1])
    /\ ExceedsUsizeMax(StrDeclared(item))

\* C29: the scanner returns Err(Excessive(arg)) on the byte that completes a
\* declared string length above usize::MAX, and does not enter Pay; for a
\* declared length within the platform range it never returns Excessive.
C29_Excessive ==
    op = "consume" =>
        /\ IsExcessive(ret) <=> DeclaredTooLong
        /\ IsExcessive(ret) =>
              /\ ret.err.count = StrDeclared(item)
              /\ state.tag # "Pay"

\* a text string of 2^64 - 1 declared bytes on a 32-bit target
C29_Witness ==
    /\ usize_bits = 32
    /\ op = "consume"
    /\ Len(item) = 9 /\ item[1] = 123
    /\ ret = Err([e |-> "Excessive",
                  count |-> <<255, 255, 255, 255, 255, 255, 255, 255>>])
    /\ state = ScanStateDefault

\* the u64 2^64 - 1 - a, byte by byte
U64Complement(a) == [i \in 1..8 |-> 255 - a[i]]

\* C30: Token::from(v) is Nint(-1 - v) when v < 0 and Uint(v) when v >= 0,
\* with no overflow and no failed conversion, i64::MIN and -1 included.
\* For v < 0 held as the u64 v + 2^64, -1 - v is 2^64 - 1 - (v + 2^64).
C30_FromI64 ==
    token_out # NoCall =>
        IF I64Negative(int_in)
        THEN token_out = TokNint(U64Complement(int_in))
        ELSE token_out = TokUint(int_in)

\* i64::MIN was converted to Nint(2^63 - 1)
C30_Witness ==
    /\ int_in = <<128, 0, 0, 0, 0, 0, 0, 0>>
    /\ token_out = TokNint(<<127, 255, 255, 255, 255, 255, 255, 255>>)
    /\ overflow_checks

\* C31: when Scanner::consume returns Err, the scanner keeps the state it
\* had when the call began, for an error raised in Head as for one raised
\* while an argument is being completed.
C31_ErrRetainsState ==
    [][op' = "consume" /\ ret'.r = "Err" => state' = state]_vars

DecodeDone ==
    \/ rest = <<>>
    \/ ret.r \in {"Err", "Panic"}
    \/ ~LLRunning /\ ~LRRunning

\* C33: every value (Uint, Nint, Float, Bstr, Tstr, Simple, Tag, Array, Map,
\* nested) has a byte stream that decodes to it: its definite-length
\* encoding, fed byte by byte to the scanner and token by token to a parser,
\* LL or LR, comes back as exactly that value.
C33_EveryValueDecodes ==
    \A v \in DecodeValues :
        given = Encode(v) /\ DecodeDone =>
            /\ ll_ret = OkValue(v)
            /\ lr_ret = OkValue(v)

\* what do_consume leaves and returns when the LL parser is handed the
\* token appended to toks in this step
LLDriven == ll_do_consume(ll_inner.val_stack, ll_inner.cxt_stack,
                          toks'[Len(toks')])

\* C34: on an LL parser made by cbor(), whenever the driver has processed a
\* token without error and left the context stack empty, the value stack
\* holds exactly one value, which consume returns; consume never returns
\* Err(Internal) or Err(Invalid), whatever the tokens.
C34_OneValueAtTheEnd ==
    [][toks' # toks
       => /\ LLDriven.res = ROk /\ LLDriven.cxt_stack.inner = <<>>
             => /\ Len(LLDriven.val_stack) = 1
                /\ ll_ret' = OkValue(LLDriven.val_stack[1])
          /\ ll_ret' # Err(Error_Internal)
          /\ ll_ret' # Err(Error_Invalid)]_vars

\* the %break that closes an indefinite map of one entry emptied the
\* context stack, and the map was the one value on the value stack
C34_Witness ==
    /\ Len(toks) = 4
    /\ toks[1].kind = "MapX"
    /\ toks[4].kind = "Break"
    /\ ll_ret.r = "Some"
    /\ ll_ret.value.v = "Map"
    /\ Len(ll_ret.value.entries) = 1
    /\ ll_inner.cxt_stack.inner = <<>>

\* C35: whenever the LR parser takes the Accept action the state stack is
\* exactly [Init, Accept] and the value stack holds exactly one value; accept
\* pops both, so that when the value has been returned the state stack is
\* [Init] and the value stack is empty.
C35_Accept ==
    lr_ret.r = "Some" =>
        /\ lr_parser.states.inner = <<State("Init")>>
        /\ lr_parser.values.inner = <<>>

\* the entries of the state stack that stand for an element consumed: the
\* states ValueArray(k, n) and ValueMap(k, n) with k > 0
ElementStates(ss) ==
    {i \in 1..Len(ss) :
        ss[i].s \in {"ValueArray", "ValueMap"} /\ ss[i].k # U64Zero}

\* C36: in every state stack the LR parser reaches, each ValueArray(k, n) and
\* ValueMap(k, n) has k <= n, the n of a ValueMap is even, State::Invalid is
\* never pushed, and each entry with k > 0 lies on the entry with k - 1 of
\* the same n, a value on the value stack for each; the reduction of
\* %array(n) and %map(n) fires as soon as the top entry has k = n and not
\* before, so that no entry with k = n is left when a call returns, and no
\* panic branch of a reducer is taken: a call aborts only where next_action
\* has no action for the token itself.
C36_ArrayMapStates ==
    [][toks' # toks
       => LET ss == lr_parser'.states.inner
          IN  /\ \A i \in 1..Len(ss) :
                    /\ ss[i].s # "Invalid"
                    /\ ss[i].s \in {"ValueArray", "ValueMap"} =>
                          /\ ~U64Lt(ss[i].n, ss[i].k)
                          /\ ss[i].s = "ValueMap" => ss[i].n[8] % 2 = 0
                          /\ lr_ret'.r # "Panic" => ss[i].k # ss[i].n
                          /\ ss[i].k # U64Zero =>
                                /\ i > 1
                                /\ ss[i - 1] = [ss[i] EXCEPT !.k = U64Dec(@)]
              /\ Cardinality(ElementStates(ss)) <= Len(lr_parser'.values.inner)
              /\ lr_ret'.r = "Panic" =>
                    next_action(TopState(lr_parser), toks'[Len(toks')])
                        = ActionPanic]_vars

\* %array(2) and its two elements were reduced to the array
C36_Witness ==
    /\ Len(toks) = 3
    /\ toks[1] = TokArray(U64FromByte(2))
    /\ lr_ret = OkValue(Value_Array(<<Value_Uint(U64FromByte(1)),
                                      Value_Uint(U64FromByte(1))>>))
    /\ lr_parser.states.inner = <<State("Init")>>

\* C37: between the consume calls of an LL parser made by cbor(), the top of
\* the context stack, when there is one, is a non-terminal expectation: no
\* semantic action and no terminal expectation is left on top by the call
\* that pushed it, so that no call begins with the action arm or the
\* terminal-mismatch arm of the driver.
C37_TopIsNonTerminal ==
    ll_ret.r # "Panic" /\ ll_inner.cxt_stack.inner # <<>>
    => Top(ll_inner.cxt_stack.inner).c = "NonTerminalSymbol"

\* C38: for every 64-bit n, %map(n) makes the parser expect exactly 2n more
\* values, 2n being computed without wrap-around: a map whose 2n values the
\* stack has no room for ends in Err(InsufficientStackSize), in the LL parser
\* at the %map token itself, and never in a value or an abort; for n >= 2^63
\* the doubled count does not wrap to a small number.
C38_MapCount ==
    toks # <<>> /\ toks[1] \in LongMaps =>
        /\ Len(toks) = 1 => ll_ret = Err(Error_InsufficientStackSize)
        /\ lr_ret.r \notin {"Some", "Panic"}
        /\ lr_ret.r = "Err" => lr_ret.err = Error_InsufficientStackSize

\* the states the LR parser stacks for an open indefinite-length sequence
\* and for each of its elements
SeqStates ==
    {"ArrayXSeqOpen", "ArrayXSeqValue", "MapXSeqOpen", "MapXSeqValue1",
     "MapXSeqValue2", "BstrXSeqOpen", "BstrXSeqBstr", "TstrXSeqOpen",
     "TstrXSeqTstr"}

\* the state stacked for the element t of the sequence whose topmost state
\* is top: an array element, a map key, a map value, a chunk
ElementState(top, t) ==
    IF top.s \in {"ArrayXSeqOpen", "ArrayXSeqValue"}
    THEN State("ArrayXSeqValue")
    ELSE IF top.s \in {"MapXSeqOpen", "MapXSeqValue2"}
    THEN State("MapXSeqValue1")
    ELSE IF top.s = "MapXSeqValue1" THEN State("MapXSeqValue2")
    ELSE State_bytes("BstrXSeqBstr", t.bytes)

\* t is an element, complete in one token, of the sequence whose topmost
\* state is top
IsElement(top, t) ==
    IF top.s \in {"BstrXSeqOpen", "BstrXSeqBstr"} THEN t.kind = "Bstr"
    ELSE /\ top.s \in SeqStates
         /\ t.kind \in {"Uint", "Bstr"}

\* the growth of the LL context stack over one element: a map key leaves the
\* action and the expectation of its value, the value takes them off again
ElementDepth(top) ==
    IF top.s \in {"MapXSeqOpen", "MapXSeqValue2"} THEN 2
    ELSE IF top.s = "MapXSeqValue1" THEN 0 - 2
    ELSE 0

\* C39: in the LR parser the state stack grows by one entry for each element
\* consumed inside an open indefinite-length sequence (array element, string
\* chunk, map key, map value) and its sequence states come off only when a
\* %break is consumed; in the LL parser the depth of the context stack after
\* a consume does not depend on the number of elements consumed so far.
\* Hence a flat indefinite-length array with more elements than the stack
\* bound: the LL parser takes every element and returns the array at the
\* %break, the LR parser returns Err(InsufficientStackSize).
C39_StackGrowth ==
    [][toks' # toks =>
        LET t == toks'[Len(toks')]
            s == lr_parser.states.inner
            s2 == lr_parser'.states.inner
            cxt == ll_inner.cxt_stack.inner
            cxt2 == ll_inner'.cxt_stack.inner
        IN  /\ LRRunning /\ lr_ret'.r \in {"None", "Some"} /\ t.kind # "Break" =>
                    \A i \in DOMAIN s :
                        s[i].s \in SeqStates => i <= Len(s2) /\ s2[i] = s[i]
            /\ LRRunning /\ IsElement(Top(s), t) =>
                    /\ ll_ret' = OkNone
                    /\ Len(cxt2) = Len(cxt) + ElementDepth(Top(s))
                    /\ IF Len(s) < lr_parser.states.upper
                       THEN /\ lr_ret' = OkNone
                            /\ s2 = Append(s, ElementState(Top(s), t))
                       ELSE lr_ret' = Err(Error_InsufficientStackSize)
            /\ FlatBase > 0 =>
                    /\ lr_ret' = Err(Error_InsufficientStackSize)
                    /\ s2 = s
                    /\ IF t.kind = "Break"
                       THEN ll_ret' = OkValue(Value_Array(
                                FlatValues(Len(toks) - 1)))
                       ELSE /\ ll_ret' = OkNone
                            /\ cxt2 = cxt
                            /\ ll_inner'.val_stack =
                                  <<Value_Array(FlatValues(Len(toks)))>>
    ]_vars

\* the kinds gather_argument is called with
ArgKinds ==
    {"Uint", "Nint", "Bstr", "Tstr", "Array", "Map", "Tag", "Simple", "Float"}

\* the heads of a string whose length follows in 1, 2, 4 or 8 bytes
LongStringHeads == {88, 89, 90, 91, 120, 121, 122, 123}

\* C40: in every reachable scanner state pending >= 1 in Arg and in Pay (no
\* assert!(pending > 0) fails), the kind stored in Pay is Bstr or Tstr (no
\* "Gathering bytes for" panic), the kind stored in Arg is none of BstrX,
\* TstrX, ArrayX, MapX, Break, and the argument of a Simple token fits in 8
\* bits (the unwrap of try_into does not fail): Simple gathers one argument
\* byte only, the token carries that byte, and a call that panics is one
\* that allocates the payload of a string announced longer than isize::MAX.
C40_ScannerStates ==
    /\ state.tag = "Arg" =>
          /\ state.pending >= 1
          /\ state.kind \in ArgKinds
          /\ state.kind = "Simple" =>
                state.pending = 1 /\ state.arg = U64Zero
    /\ state.tag = "Pay" =>
          /\ state.pending # U64Zero
          /\ state.kind \in {"Bstr", "Tstr"}
    /\ ret.r = "Some" /\ ret.token.kind = "Simple" =>
          \/ Len(item) = 1 /\ ret.token.s = item[1] - 224
          \/ Len(item) = 2 /\ item[1] = 248 /\ ret.token.s = item[2]
    /\ ret.r = "Panic" =>
          /\ item # <<>>
          /\ item[1] \in LongStringHeads
          /\ Len(item) = 1 + ArgBytesOfHead(item[1])
          /\ ExceedsIsizeMax(U64FromBE(Tail(item)))

\* a Simple token with the largest 8-bit argument has been emitted
C40_Witness ==
    /\ op = "consume"
    /\ item = <<248, 255>>
    /\ ret = OkSome(TokSimple(255))
    /\ state = ScanStateHead

====
